---- MODULE Spec2Model ----
(***************************************************************************)
(* State-machine model of the categorical chart wrapper of recharts        *)
(* (src/src/chart/generateCategoricalChart.tsx): the per-instance React    *)
(* state, the axis/offset/tick pipeline, pointer resolution and the sync   *)
(* channel shared by chart instances.                                      *)
(*                                                                         *)
(* A JavaScript object is a TLA+ function whose domain is the set of the   *)
(* keys the object holds, so `key in object` is `key \in DOMAIN object`,   *)
(* an absent (undefined) field is a key outside the domain, and React's    *)
(* setState / getDerivedStateFromProps merge is Merge below.               *)
(***************************************************************************)
EXTENDS Integers, Sequences, FiniteSets, TLC

VARIABLES
  props,      \* props[i]: the props of chart instance i (this.props)
  state,      \* state[i]: the React state of chart instance i (this.state)
  listeners,  \* eventCenter's SYNC_EVENT listeners, in registration order
  bus,        \* the emit in progress: the message and the listeners not yet called
  obs,        \* the handler that ran last, with the emits and applications it caused
  throttle    \* throttle[i]: the timer and the pending event of throttleTriggeredAfterMouseMove

vars == <<props, state, listeners, bus, obs, throttle>>

(***************************************************************************)
(* Bounds of the model.                                                    *)
(***************************************************************************)
NumCharts == 2
MaxUpdateId == 2

Charts == 1..NumCharts

(***************************************************************************)
(* JavaScript values.                                                      *)
(***************************************************************************)
Undefined == "undefined"
\* a nullable value is a sequence of length 0 (null) or 1
Null == << >>
Some(x) == << x >>
\* NaN, the number that lodash-style isNumber rejects
NaN == 0 - 1000
isNumber(v) == v # NaN

EmptyObject == [k \in {} |-> 0]

\* {...a, ...b}; also setState(b) on state a
Merge(a, b) == b @@ a

Min(a, b) == IF a <= b THEN a ELSE b
Max(a, b) == IF a >= b THEN a ELSE b

\* Array.prototype.slice(from, to) with 0 <= from, on a sequence
Slice(arr, from, to) == SubSeq(arr, from + 1, Min(to, Len(arr)))

(***************************************************************************)
(* Inputs: datasets, margins, sizes, pointer events.                       *)
(***************************************************************************)
DataA == << [name |-> "a", uv |-> 1], [name |-> "b", uv |-> 2], [name |-> "a", uv |-> 3] >>
DataB == << [name |-> "c", uv |-> 4], [name |-> "a", uv |-> 5] >>

MarginNarrow == [top |-> 1, right |-> 1, bottom |-> 1, left |-> 1]
MarginWide == [top |-> 3, right |-> 1, bottom |-> 1, left |-> 3]

originCoordinate == [x |-> 0, y |-> 0]

\* the series, axes, brush and tooltip elements every modelled chart declares
BaseChildren ==
  [ graphicalItems |-> << [dataKey |-> "uv"] >>,
    xAxis |-> [dataKey |-> "name", height |-> 1, width |-> 0, orientation |-> "bottom",
               hide |-> FALSE, mirror |-> FALSE, allowDuplicatedCategory |-> TRUE],
    yAxis |-> [dataKey |-> "name", height |-> 0, width |-> 1, orientation |-> "left",
               hide |-> FALSE, mirror |-> FALSE, allowDuplicatedCategory |-> TRUE],
    brush |-> [height |-> 1] ]

(***************************************************************************)
(* The axis / offset / tooltip-tick pipeline.                              *)
(***************************************************************************)
validateWidthHeight(p) ==
  ~ (~ isNumber(p.width) \/ p.width <= 0 \/ ~ isNumber(p.height) \/ p.height <= 0)

\* the data a series element carries itself (child.props.data), if any
itemDataOf(child) == IF "data" \in DOMAIN child THEN child.data ELSE << >>

\* the records of the series that carry non-empty data, in series order
RECURSIVE itemsDataOf(_)
itemsDataOf(graphicalItems) ==
  IF graphicalItems = << >> THEN << >>
  ELSE itemsDataOf(SubSeq(graphicalItems, 1, Len(graphicalItems) - 1))
         \o itemDataOf(graphicalItems[Len(graphicalItems)])

\* the displayed data without a look at the series' own data
getDisplayedData_datasetOnly(data, graphicalItems, dataStartIndex, dataEndIndex) ==
  IF Len(data) > 0 /\ isNumber(dataStartIndex) /\ isNumber(dataEndIndex)
  THEN Slice(data, dataStartIndex, dataEndIndex + 1)
  ELSE << >>

getDisplayedData(data, graphicalItems, dataStartIndex, dataEndIndex) ==
  LET itemsData == itemsDataOf(graphicalItems)
  IN IF Len(itemsData) > 0 THEN itemsData
     ELSE IF Len(data) > 0 /\ isNumber(dataStartIndex) /\ isNumber(dataEndIndex)
     THEN Slice(data, dataStartIndex, dataEndIndex + 1)
     ELSE << >>

\* the default state without a look at the brush element
createDefaultState_brushIgnored(p) ==
  [ chartX |-> 0,
    chartY |-> 0,
    dataStartIndex |-> 0,
    dataEndIndex |-> IF Len(p.data) # 0 THEN Len(p.data) - 1 ELSE 0,
    activeTooltipIndex |-> 0 - 1,
    isTooltipActive |-> FALSE ]

\* the brush element's startIndex and endIndex stand when they are >= 0 (an
\* index the element does not give is undefined, and undefined >= 0 is false)
createDefaultState(p) ==
  LET brushGives(key) == /\ "brush" \in DOMAIN p
                         /\ key \in DOMAIN p.brush
                         /\ p.brush[key] >= 0
      startIndex == IF brushGives("startIndex") THEN p.brush.startIndex ELSE 0
      endIndex == IF brushGives("endIndex") THEN p.brush.endIndex
                  ELSE IF Len(p.data) # 0 THEN Len(p.data) - 1 ELSE 0
  IN [ chartX |-> 0,
       chartY |-> 0,
       dataStartIndex |-> startIndex,
       dataEndIndex |-> endIndex,
       activeTooltipIndex |-> 0 - 1,
       isTooltipActive |-> FALSE ]

getAxisNameByLayout(layout) ==
  IF layout = "horizontal"
  THEN [numericAxisName |-> "yAxis", cateAxisName |-> "xAxis"]
  ELSE [numericAxisName |-> "xAxis", cateAxisName |-> "yAxis"]

\* the legend's measured box widens the margin on the side the legend sits on
appendOffsetOfLegend(offset, legend, legendBox) ==
  IF legend.layout = "vertical" /\ legend.align \in {"left", "right"}
  THEN [offset EXCEPT ![legend.align] = @ + legendBox.width]
  ELSE IF legend.layout = "horizontal" /\ legend.verticalAlign \in {"top", "bottom"}
  THEN [offset EXCEPT ![legend.verticalAlign] = @ + legendBox.height]
  ELSE offset

\* the axes of one dimension as calculateOffset gets them: the entries of the
\* axis map, one per axis id (the one axis element where the chart declares one)
AxesOfOffset(p, axisType) ==
  IF (axisType \o "Map") \in DOMAIN p THEN p[axisType \o "Map"] ELSE << p[axisType] >>

\* a sum that counts the hidden and the mirrored axes too
RECURSIVE AxisSpace_hiddenCounted(_, _, _)
AxisSpace_hiddenCounted(axes, orientation, size) ==
  IF axes = << >> THEN 0
  ELSE LET entry == axes[Len(axes)]
       IN AxisSpace_hiddenCounted(SubSeq(axes, 1, Len(axes) - 1), orientation, size)
            + (IF entry.orientation = orientation THEN entry[size] ELSE 0)

\* what the axes with the given orientation add: the width (y axes) or height
\* (x axes) of those that are neither mirrored nor hidden
RECURSIVE AxisSpace(_, _, _)
AxisSpace(axes, orientation, size) ==
  IF axes = << >> THEN 0
  ELSE LET entry == axes[Len(axes)]
       IN AxisSpace(SubSeq(axes, 1, Len(axes) - 1), orientation, size)
            + (IF ~ entry.mirror /\ ~ entry.hide /\ entry.orientation = orientation
               THEN entry[size] ELSE 0)

\* the space the margins, the shown axes, the brush and the legend take
OffsetSides(p, prevLegendBBox) ==
  LET margin == IF "margin" \in DOMAIN p THEN p.margin ELSE EmptyObject
      marginOn(side) == IF side \in DOMAIN margin THEN margin[side] ELSE 0
      yAxisMap == AxesOfOffset(p, "yAxis")
      xAxisMap == AxesOfOffset(p, "xAxis")
      left   == marginOn("left") + AxisSpace(yAxisMap, "left", "width")
      right  == marginOn("right") + AxisSpace(yAxisMap, "right", "width")
      top    == marginOn("top") + AxisSpace(xAxisMap, "top", "height")
      brushBottom == marginOn("bottom") + AxisSpace(xAxisMap, "bottom", "height")
      bottom == brushBottom + (IF "brush" \in DOMAIN p THEN p.brush.height ELSE 0)
      offset == [brushBottom |-> brushBottom, top |-> top, bottom |-> bottom,
                 left |-> left, right |-> right]
  IN IF "legend" \in DOMAIN p /\ prevLegendBBox # Null
     THEN appendOffsetOfLegend(offset, p.legend, prevLegendBBox[1])
     ELSE offset

calculateOffset_noClamp(p, prevLegendBBox) ==
  LET offset == OffsetSides(p, prevLegendBBox)
  IN Merge(offset, [width |-> p.width - offset.left - offset.right,
                    height |-> p.height - offset.top - offset.bottom])

calculateOffset(p, prevLegendBBox) ==
  LET offset == OffsetSides(p, prevLegendBBox)
      offsetWidth  == p.width - offset.left - offset.right
      offsetHeight == p.height - offset.top - offset.bottom
  IN Merge(offset, [width |-> Max(offsetWidth, 0), height |-> Max(offsetHeight, 0)])

\* the pixel range formatAxisMap gives the category axis (no padding, not reversed)
CategoryRange(p, offset) ==
  IF getAxisNameByLayout(p.layout).cateAxisName = "xAxis"
  THEN << offset.left, offset.left + offset.width >>
  ELSE << offset.top, offset.top + offset.height >>

Dedup_keepRepeats(values) == values

RECURSIVE Dedup(_)
Dedup(values) ==
  IF values = << >> THEN << >>
  ELSE LET init == Dedup(SubSeq(values, 1, Len(values) - 1))
           last == values[Len(values)]
       IN IF \E k \in 1..Len(init) : init[k] = last THEN init ELSE Append(init, last)

\* the values the ticks of the category axis carry: getAxisMapByAxes for a
\* category axis with a data key, then getTicksOfAxis
CategoryTickValues(axis, displayedData) ==
  LET domain == [k \in 1..Len(displayedData) |-> displayedData[k][axis.dataKey]]
  IN IF axis.allowDuplicatedCategory THEN domain ELSE Dedup(domain)

\* band scale, tick at the middle of its band
TickCoordinate(range, index, count) ==
  range[1] + ((2 * index + 1) * (range[2] - range[1])) \div (2 * count)

tooltipTicksGenerator(p, offset, dataStartIndex, dataEndIndex) ==
  LET axis   == p[getAxisNameByLayout(p.layout).cateAxisName]
      values == CategoryTickValues(axis, getDisplayedData(p.data, p.graphicalItems, dataStartIndex, dataEndIndex))
      range  == CategoryRange(p, offset)
  IN [ tooltipTicks |->
         [k \in 1..Len(values) |->
            [value |-> values[k],
             coordinate |-> TickCoordinate(range, k - 1, Len(values)),
             index |-> k - 1]],
       tooltipAxis |-> axis ]

\* the formatted series: each carries the update id as its animationId
formattedGraphicalItemsOf(graphicalItems, updateId) ==
  [k \in DOMAIN graphicalItems |-> [item |-> graphicalItems[k], animationId |-> updateId]]

\* a pipeline that computes the offset without the legend box
updateStateOfAxisMapsOffsetAndStackGroups_legendIgnored(p, dataStartIndex, dataEndIndex, updateId, prevState) ==
  IF ~ validateWidthHeight(p) THEN EmptyObject
  ELSE LET offset == calculateOffset(p, Null)
       IN Merge([formattedGraphicalItems |->
                   formattedGraphicalItemsOf(p.graphicalItems, updateId),
                 graphicalItems |-> p.graphicalItems, offset |-> offset],
                tooltipTicksGenerator(p, offset, dataStartIndex, dataEndIndex))

\* a pipeline that keeps the offset of the previous state when there is one
updateStateOfAxisMapsOffsetAndStackGroups_offsetKept(p, dataStartIndex, dataEndIndex, updateId, prevState) ==
  IF ~ validateWidthHeight(p) THEN EmptyObject
  ELSE LET offset == IF "offset" \in DOMAIN prevState THEN prevState.offset
                     ELSE calculateOffset(p, IF "legendBBox" \in DOMAIN prevState
                                             THEN prevState.legendBBox ELSE Null)
       IN Merge([formattedGraphicalItems |->
                   formattedGraphicalItemsOf(p.graphicalItems, updateId),
                 graphicalItems |-> p.graphicalItems, offset |-> offset],
                tooltipTicksGenerator(p, offset, dataStartIndex, dataEndIndex))

\* null (nothing to merge) on a degenerate size; the offset is computed with
\* the legend box of prevState, and nothing else of prevState is read
updateStateOfAxisMapsOffsetAndStackGroups(p, dataStartIndex, dataEndIndex, updateId, prevState) ==
  IF ~ validateWidthHeight(p) THEN EmptyObject
  ELSE LET offset == calculateOffset(p, IF "legendBBox" \in DOMAIN prevState
                                        THEN prevState.legendBBox ELSE Null)
       IN Merge([formattedGraphicalItems |->
                   formattedGraphicalItemsOf(p.graphicalItems, updateId),
                 graphicalItems |-> p.graphicalItems, offset |-> offset],
                tooltipTicksGenerator(p, offset, dataStartIndex, dataEndIndex))

(***************************************************************************)
(* Pointer resolution.                                                     *)
(***************************************************************************)
\* arr[index] of a JavaScript array: null stands for "no such element"
At(arr, index) == IF index >= 0 /\ index < Len(arr) THEN Some(arr[index + 1]) ELSE Null

\* obj[key] where the key may be absent
Field(obj, key, absent) == IF key \in DOMAIN obj THEN obj[key] ELSE absent

calculateTooltipPos(rangeObj, layout) ==
  IF layout = "horizontal" THEN rangeObj.x ELSE rangeObj.y

\* nearest tick; a coordinate at the midpoint of two ticks belongs to the first
calculateActiveTickIndex(coordinate, ticks) ==
  IF Len(ticks) = 0 THEN 0 - 1
  ELSE LET hit(k) == \/ k = Len(ticks)
                     \/ 2 * coordinate <= ticks[k].coordinate + ticks[k + 1].coordinate
           first == CHOOSE k \in 1..Len(ticks) : hit(k) /\ \A j \in 1..(k - 1) : ~ hit(j)
       IN ticks[first].index

getActiveCoordinate(layout, tooltipTicks, activeIndex, rangeObj) ==
  IF \E k \in 1..Len(tooltipTicks) : tooltipTicks[k].index = activeIndex
  THEN LET entry == tooltipTicks[CHOOSE k \in 1..Len(tooltipTicks) :
                                   /\ tooltipTicks[k].index = activeIndex
                                   /\ \A j \in 1..(k - 1) : tooltipTicks[j].index # activeIndex]
       IN IF layout = "horizontal"
          THEN [x |-> entry.coordinate, y |-> rangeObj.y]
          ELSE [x |-> rangeObj.x, y |-> entry.coordinate]
  ELSE originCoordinate

getTooltipItem(child, payload) ==
  [dataKey |-> child.dataKey, value |-> payload[child.dataKey], payload |-> payload]

\* first entry of arr whose field key has the given value (null when none)
findEntryInArray(arr, key, value) ==
  IF \E k \in 1..Len(arr) : arr[k][key] = value
  THEN Some(arr[CHOOSE k \in 1..Len(arr) :
                  arr[k][key] = value /\ \A j \in 1..(k - 1) : arr[j][key] # value])
  ELSE Null

\* the tooltip axis matches by category key when it has a data key and does
\* not allow duplicated categories
matchesByKey(tooltipAxis) ==
  "dataKey" \in DOMAIN tooltipAxis /\ ~ tooltipAxis.allowDuplicatedCategory

RECURSIVE TooltipItems(_, _, _, _, _)
TooltipItems(st, chartData, activeIndex, activeLabel, children) ==
  IF children = << >> THEN << >>
  ELSE
    LET child == children[Len(children)]
        result == TooltipItems(st, chartData, activeIndex, activeLabel,
                               SubSeq(children, 1, Len(children) - 1))
        displayedData == getDisplayedData(chartData, Field(st, "graphicalItems", << >>),
                                          st.dataStartIndex, st.dataEndIndex)
        childData == IF "data" \in DOMAIN child THEN child.data ELSE chartData
        data == IF /\ st.dataStartIndex + st.dataEndIndex # 0
                   /\ st.dataEndIndex - st.dataStartIndex >= activeIndex
                THEN Slice(childData, st.dataStartIndex, st.dataEndIndex + 1)
                ELSE childData
        payload == IF matchesByKey(st.tooltipAxis)
                   THEN findEntryInArray(data, st.tooltipAxis.dataKey, activeLabel)
                   ELSE IF At(data, activeIndex) # Null THEN At(data, activeIndex)
                        ELSE At(displayedData, activeIndex)
    IN IF payload = Null THEN result ELSE Append(result, getTooltipItem(child, payload[1]))

\* the content without the test of the index against the displayed data
getTooltipContent_lengthUnchecked(st, chartData, activeIndex, activeLabel) ==
  LET graphicalItems == Field(st, "graphicalItems", << >>)
  IN IF activeIndex < 0 \/ Len(graphicalItems) = 0
     THEN Null
     ELSE Some(TooltipItems(st, chartData, activeIndex, activeLabel, graphicalItems))

\* null, or the list of tooltip items
getTooltipContent(st, chartData, activeIndex, activeLabel) ==
  LET graphicalItems == Field(st, "graphicalItems", << >>)
      displayedData == getDisplayedData(chartData, Field(st, "graphicalItems", << >>),
                                        st.dataStartIndex, st.dataEndIndex)
  IN IF activeIndex < 0 \/ Len(graphicalItems) = 0 \/ activeIndex >= Len(displayedData)
     THEN Null
     ELSE Some(TooltipItems(st, chartData, activeIndex, activeLabel, graphicalItems))

\* rangeObj is null or a point; the result is null or the tooltip data
getTooltipData(st, chartData, layout, rangeObj) ==
  LET rangeData == IF rangeObj # Null THEN rangeObj[1] ELSE [x |-> st.chartX, y |-> st.chartY]
      pos == calculateTooltipPos(rangeData, layout)
      tooltipTicks == Field(st, "tooltipTicks", << >>)
      activeIndex == calculateActiveTickIndex(pos, tooltipTicks)
  IN IF activeIndex >= 0 /\ "tooltipTicks" \in DOMAIN st
     THEN LET activeLabel == IF At(tooltipTicks, activeIndex) # Null
                             THEN At(tooltipTicks, activeIndex)[1].value ELSE Undefined
          IN Some([ activeTooltipIndex |-> activeIndex,
                    activeLabel |-> activeLabel,
                    activePayload |-> getTooltipContent(st, chartData, activeIndex, activeLabel),
                    activeCoordinate |->
                      getActiveCoordinate(layout, tooltipTicks, activeIndex, rangeData) ])
     ELSE Null

\* the first formatted series whose element is a Scatter (null when none)
findScatterPlotElement(formattedGraphicalItems) ==
  LET isScatterAt(k) == /\ "type" \in DOMAIN formattedGraphicalItems[k].item
                        /\ formattedGraphicalItems[k].item.type = "Scatter"
  IN IF \E k \in DOMAIN formattedGraphicalItems : isScatterAt(k)
     THEN Some(formattedGraphicalItems[
                 CHOOSE k \in DOMAIN formattedGraphicalItems :
                   isScatterAt(k) /\ \A j \in 1..(k - 1) : ~ isScatterAt(j)])
     ELSE Null

\* typeof defaultIndex !== 'number' || defaultIndex < 0: the part of the guard
\* evaluated before the tooltip ticks are read (NaN passes both tests)
defaultIndexRejected(tooltipElem) ==
  \/ "defaultIndex" \notin DOMAIN tooltipElem
  \/ tooltipElem.defaultIndex.typeof # "number"
  \/ (isNumber(tooltipElem.defaultIndex.value) /\ tooltipElem.defaultIndex.value < 0)

\* the default tooltip taking any index that is a number and not negative
displayDefaultTooltip_noUpperBound(st, p) ==
  IF "tooltip" \notin DOMAIN p \/ defaultIndexRejected(p.tooltip)
  THEN [thrown |-> Null, nextState |-> EmptyObject]
  ELSE LET defaultIndex == p.tooltip.defaultIndex.value
           tick == At(Field(st, "tooltipTicks", << >>), defaultIndex)
       IN [ thrown |-> Null,
            nextState |->
              [ activeTooltipIndex |-> defaultIndex,
                isTooltipActive |-> TRUE,
                activeLabel |-> IF tick # Null THEN tick[1].value ELSE Undefined,
                activePayload |-> getTooltipContent(st, p.data, defaultIndex, Undefined),
                activeCoordinate |-> originCoordinate ] ]

\* displayDefaultTooltip: the partial state it sets (nothing on an early
\* return), or the TypeError of a read through undefined.  The element's
\* defaultIndex is a value with its typeof; the points of a Scatter element
\* are those composed for it, carried by the element.  The dependent
\* coordinate (offset.top + height) / 2 is a whole number for the modelled
\* margins and heights.
displayDefaultTooltip(st, p) ==
  IF "tooltip" \notin DOMAIN p \/ defaultIndexRejected(p.tooltip)
  THEN [thrown |-> Null, nextState |-> EmptyObject]
  ELSE LET defaultIndex == p.tooltip.defaultIndex.value IN
    IF "tooltipTicks" \notin DOMAIN st
    THEN [thrown |-> Some("TypeError"), nextState |-> EmptyObject]
    ELSE IF isNumber(defaultIndex) /\ defaultIndex > Len(st.tooltipTicks) - 1
    THEN [thrown |-> Null, nextState |-> EmptyObject]
    ELSE IF At(st.tooltipTicks, defaultIndex) = Null
    THEN [thrown |-> Some("TypeError"), nextState |-> EmptyObject]
    ELSE
      LET tick == At(st.tooltipTicks, defaultIndex)[1]
          activeLabel == tick.value
          independentAxisCoord == tick.coordinate
          dependentAxisCoord == (st.offset.top + p.height) \div 2
          scatterPlotElement == findScatterPlotElement(st.formattedGraphicalItems)
          point == IF scatterPlotElement # Null
                   THEN At(scatterPlotElement[1].item.points, defaultIndex) ELSE Null
          coordinate == IF p.layout = "horizontal"
                        THEN [x |-> independentAxisCoord, y |-> dependentAxisCoord]
                        ELSE [y |-> independentAxisCoord, x |-> dependentAxisCoord]
      IN IF scatterPlotElement # Null /\ point = Null
         THEN [thrown |-> Some("TypeError"), nextState |-> EmptyObject]
         ELSE [ thrown |-> Null,
                nextState |->
                  [ activeTooltipIndex |-> defaultIndex,
                    isTooltipActive |-> TRUE,
                    activeLabel |-> activeLabel,
                    activePayload |->
                      IF scatterPlotElement # Null THEN Some(point[1].tooltipPayload)
                      ELSE getTooltipContent(st, p.data, defaultIndex, activeLabel),
                    activeCoordinate |->
                      IF scatterPlotElement # Null
                      THEN Merge(coordinate, point[1].tooltipPosition)
                      ELSE coordinate ] ]

\* a pointer event: the rounded position in the container and the inverse of
\* the container's scale (boundingRect.width / offsetWidth = 1 / invScale)
PointerEvents ==
  { [chartX |-> 8, chartY |-> 6, invScale |-> 1],
    [chartX |-> 2, chartY |-> 2, invScale |-> 2],
    [chartX |-> 5, chartY |-> 2, invScale |-> 2] }

\* the containment test on the unscaled position
inRange_unscaled(st, x, y, invScale) ==
  LET offset == st.offset
      isInRange == /\ x >= offset.left
                   /\ x <= offset.left + offset.width
                   /\ y >= offset.top
                   /\ y <= offset.top + offset.height
  IN IF isInRange THEN Some([x |-> x, y |-> y]) ELSE Null

\* x / scale and y / scale inside the plot rectangle (cartesian layouts)
inRange(st, x, y, invScale) ==
  LET scaledX == x * invScale
      scaledY == y * invScale
      offset == st.offset
      isInRange == /\ scaledX >= offset.left
                   /\ scaledX <= offset.left + offset.width
                   /\ scaledY >= offset.top
                   /\ scaledY <= offset.top + offset.height
  IN IF isInRange THEN Some([x |-> scaledX, y |-> scaledY]) ELSE Null

\* the container exists while the chart is mounted and render() produced it
hasContainer(i) ==
  (\E k \in 1..Len(listeners) : listeners[k] = i) /\ validateWidthHeight(props[i])

\* null, or the pointer position with the tooltip data (tooltip event type 'axis')
getMouseInfo(i, event) ==
  IF ~ hasContainer(i) THEN Null
  ELSE LET e == [chartX |-> event.chartX, chartY |-> event.chartY]
           rangeObj == inRange(state[i], e.chartX, e.chartY, event.invScale)
       IN IF rangeObj = Null THEN Null
          ELSE LET toolTipData == getTooltipData(state[i], props[i].data, props[i].layout, rangeObj)
               IN IF toolTipData # Null THEN Some(Merge(e, toolTipData[1])) ELSE Null

(***************************************************************************)
(* The sync channel.                                                       *)
(***************************************************************************)
\* what a custom syncMethod function may return
CustomResults == {0 - 1, 1}

NoEmit == [msg |-> Null, pending |-> << >>]
\* the last call: the handler, the chart, its input, what it emitted and who applied it
Called(op, i, input) ==
  [op |-> op, actor |-> i, input |-> input, emits |-> 0, applied |-> [j \in Charts |-> 0]]

\* eventCenter.emit(SYNC_EVENT, syncId, data, eventEmitterSymbol): the messages emitted
triggerSyncEvent(i, data) ==
  IF props[i].syncId # Undefined
  THEN << [cId |-> props[i].syncId, data |-> data, emitter |-> i] >>
  ELSE << >>

\* index of the last tick whose value is the label (the scan without its break)
FirstTickWithValue_noBreak(tooltipTicks, label) ==
  IF \E k \in 1..Len(tooltipTicks) : tooltipTicks[k].value = label
  THEN (CHOOSE k \in 1..Len(tooltipTicks) :
          /\ tooltipTicks[k].value = label
          /\ \A j \in (k + 1)..Len(tooltipTicks) : tooltipTicks[j].value # label) - 1
  ELSE 0 - 1

\* index of the first tick whose value is the label, -1 when there is none
FirstTickWithValue(tooltipTicks, label) ==
  IF \E k \in 1..Len(tooltipTicks) : tooltipTicks[k].value = label
  THEN (CHOOSE k \in 1..Len(tooltipTicks) :
          /\ tooltipTicks[k].value = label
          /\ \A j \in 1..(k - 1) : tooltipTicks[j].value # label) - 1
  ELSE 0 - 1

\* the index policy resolved like the value policy
syncActiveTooltipIndex_byValue(p, tooltipTicks, data, custom) ==
  IF p.syncMethod = "function" THEN custom
  ELSE FirstTickWithValue(tooltipTicks, data.activeLabel)

\* the receiver's active index under its sync policy; custom is what a custom
\* syncMethod returns for this call
syncActiveTooltipIndex(p, tooltipTicks, data, custom) ==
  IF p.syncMethod = "function" THEN custom
  ELSE IF p.syncMethod = "value"
       THEN FirstTickWithValue(tooltipTicks, data.activeLabel)
       ELSE data.activeTooltipIndex

\* applySyncEvent taking the window of every message, tooltip messages included
applySyncEvent_windowOfAnyMessage(st, p, data, custom) ==
  LET dataStartIndex == Field(data, "dataStartIndex", NaN)
      dataEndIndex == Field(data, "dataEndIndex", NaN)
  IN Merge(st, Merge([dataStartIndex |-> dataStartIndex, dataEndIndex |-> dataEndIndex],
                     updateStateOfAxisMapsOffsetAndStackGroups(p, dataStartIndex, dataEndIndex,
                                                               st.updateId, st)))

\* applySyncEvent without the test of the offset: the fields of a tooltip
\* message are set as they come
applySyncEvent_offsetUnchecked(st, p, data, custom) ==
  IF "dataStartIndex" \in DOMAIN data \/ "dataEndIndex" \in DOMAIN data
  THEN applySyncEvent_windowOfAnyMessage(st, p, data, custom)
  ELSE Merge(st, data)

\* a message without window and without tooltip index that is dropped
applySyncEventOther_dropped(st, data) == st

\* the last branch of applySyncEvent: this.setState(data)
applySyncEventOther(st, data) == Merge(st, data)

\* the state of an instance after applySyncEvent(data)
applySyncEvent(st, p, data, custom) ==
  IF "dataStartIndex" \in DOMAIN data \/ "dataEndIndex" \in DOMAIN data
  THEN LET dataStartIndex == Field(data, "dataStartIndex", NaN)
           dataEndIndex == Field(data, "dataEndIndex", NaN)
       IN Merge(st, Merge([dataStartIndex |-> dataStartIndex, dataEndIndex |-> dataEndIndex],
                          updateStateOfAxisMapsOffsetAndStackGroups(p, dataStartIndex, dataEndIndex,
                                                                    st.updateId, st)))
  ELSE IF "activeTooltipIndex" \in DOMAIN data
  THEN IF "offset" \notin DOMAIN st THEN st
       ELSE
         LET offset == st.offset
             tooltipTicks == st.tooltipTicks
             activeTooltipIndex == syncActiveTooltipIndex(p, tooltipTicks, data, custom)
             viewBox == Merge(offset, [x |-> offset.left, y |-> offset.top])
             validateChartX == Min(data.chartX, viewBox.x + viewBox.width)
             validateChartY == Min(data.chartY, viewBox.y + viewBox.height)
             tick == At(tooltipTicks, activeTooltipIndex)
             activeLabel == IF tick # Null THEN tick[1].value ELSE Undefined
             activePayload == getTooltipContent(st, p.data, activeTooltipIndex, Undefined)
             activeCoordinate ==
               IF tick # Null
               THEN [x |-> IF p.layout = "horizontal" THEN tick[1].coordinate ELSE validateChartX,
                     y |-> IF p.layout = "horizontal" THEN validateChartY ELSE tick[1].coordinate]
               ELSE originCoordinate
         IN Merge(st, Merge(data, [ activeLabel |-> activeLabel,
                                    activeCoordinate |-> activeCoordinate,
                                    activePayload |-> activePayload,
                                    activeTooltipIndex |-> activeTooltipIndex ]))
  ELSE applySyncEventOther(st, data)

\* applySyncEvent passing the message on to the channel again
applySyncEventEmits_rebroadcast(i, data) == triggerSyncEvent(i, data)

\* the sync messages applySyncEvent itself emits: it never calls triggerSyncEvent
applySyncEventEmits(i, data) == << >>

\* the receive guard without the emitter-identity check
receivesSyncEvent_noEmitterCheck(i, cId, emitter) ==
  props[i].syncId = cId

\* the receive guard without the sync id comparison
receivesSyncEvent_noSyncIdCheck(i, cId, emitter) ==
  ~ (emitter = i /\ props[i].syncMethod # "function")

\* whether handleReceiveSyncEvent of instance i passes the message on to applySyncEvent
receivesSyncEvent(i, cId, emitter) ==
  /\ props[i].syncId = cId
  /\ ~ (emitter = i /\ props[i].syncMethod # "function")

handleReceiveSyncEvent(i, cId, data, emitter, custom) ==
  IF receivesSyncEvent(i, cId, emitter)
  THEN applySyncEvent(state[i], props[i], data, custom)
  ELSE state[i]

(***************************************************************************)
(* Props and their derivation into state.                                  *)
(***************************************************************************)
SyncProfiles ==
  << [syncId |-> Undefined, syncMethod |-> "index"],
     [syncId |-> "s1", syncMethod |-> "index"],
     [syncId |-> "s1", syncMethod |-> "value"],
     [syncId |-> "s1", syncMethod |-> "function"],
     [syncId |-> "s2", syncMethod |-> "index"] >>

ChartProfiles ==
  << [layout |-> "horizontal", margin |-> MarginNarrow, data |-> DataA, tooltipTrigger |-> "hover"],
     [layout |-> "vertical", margin |-> MarginWide, data |-> DataB, tooltipTrigger |-> "click"] >>

ValidSize == [width |-> 10, height |-> 9]
Sizes == << ValidSize, [width |-> 0, height |-> 9], [width |-> 10, height |-> NaN] >>

\* the windows the brush control reports
BrushWindows ==
  { [startIndex |-> 0, endIndex |-> 1], [startIndex |-> 0, endIndex |-> 2] }

ChartProps(sync, chart, size) == Merge(BaseChildren, Merge(sync, Merge(chart, size)))

\* the charts are interchangeable (any of them may mount first), so the initial
\* props are chosen up to a renaming of the charts: kinds are numbered and
\* chart i gets a kind numbered no lower than chart i - 1
KindCount == Len(SyncProfiles) * Len(ChartProfiles)
Kind(k, size) ==
  ChartProps(SyncProfiles[((k - 1) \div Len(ChartProfiles)) + 1],
             ChartProfiles[((k - 1) % Len(ChartProfiles)) + 1], size)
Nondecreasing(f) == \A i, j \in DOMAIN f : i <= j => f[i] <= f[j]

\* the elements a chart is given as children: series, axes, brush, legend
\* and tooltip; isChildrenEqual compares them element by element
ChildKeys == {"graphicalItems", "xAxis", "yAxis", "zAxis", "brush", "legend", "tooltip"}
ChildrenOf(p) == [k \in (DOMAIN p) \cap ChildKeys |-> p[k]]
isChildrenEqual(nextChildren, prevChildren) == nextChildren = prevChildren

\* !isNil(data): a chart that is given no data prop holds the empty list of
\* records together with the key dataNil
hasGlobalData(p) == "dataNil" \notin DOMAIN p

\* a derivation that keeps nothing of the previous pointer state
keepFromPrevState_nothing(prevState) == EmptyObject

\* the last pointer position and the tooltip flag, kept over a derivation
keepFromPrevState(prevState) ==
  [ chartX |-> prevState.chartX,
    chartY |-> prevState.chartY,
    isTooltipActive |-> prevState.isTooltipActive ]

\* a new generation on every change of the children
newUpdateIdOfChildren_always(p, hasDifferentStartOrEndIndex, prevState) ==
  prevState.updateId + 1

\* the update id after a change of the children only
newUpdateIdOfChildren(p, hasDifferentStartOrEndIndex, prevState) ==
  IF hasGlobalData(p) /\ ~ hasDifferentStartOrEndIndex
  THEN prevState.updateId ELSE prevState.updateId + 1

\* the partial state getDerivedStateFromProps returns (null: nothing to merge);
\* prevProps stands for the prevDataKey, prevData, prevWidth, ... prevChildren
\* fields of prevState
getDerivedStateFromProps(nextProps, prevProps, prevState) ==
  IF "updateId" \notin DOMAIN prevState
  THEN LET defaultState == createDefaultState(nextProps)
       IN Merge(Merge(defaultState, [updateId |-> 0]),
                updateStateOfAxisMapsOffsetAndStackGroups(
                  nextProps, defaultState.dataStartIndex, defaultState.dataEndIndex,
                  0, prevState))
  ELSE IF \/ ("dataKey" \in DOMAIN nextProps) # ("dataKey" \in DOMAIN prevProps)
          \/ ("dataKey" \in DOMAIN nextProps /\ nextProps.dataKey # prevProps.dataKey)
          \/ nextProps.data # prevProps.data
          \/ hasGlobalData(nextProps) # hasGlobalData(prevProps)
          \/ nextProps.width # prevProps.width
          \/ nextProps.height # prevProps.height
          \/ nextProps.layout # prevProps.layout
          \/ ("stackOffset" \in DOMAIN nextProps) # ("stackOffset" \in DOMAIN prevProps)
          \/ ("stackOffset" \in DOMAIN nextProps /\ nextProps.stackOffset # prevProps.stackOffset)
          \/ nextProps.margin # prevProps.margin
  THEN LET defaultState == createDefaultState(nextProps)
           tooltipData == getTooltipData(prevState, nextProps.data, nextProps.layout, Null)
           updatesToState == Merge(IF tooltipData # Null THEN tooltipData[1] ELSE EmptyObject,
                                   [updateId |-> prevState.updateId + 1])
           newState == Merge(defaultState, Merge(keepFromPrevState(prevState), updatesToState))
       IN Merge(newState,
                updateStateOfAxisMapsOffsetAndStackGroups(
                  nextProps, newState.dataStartIndex, newState.dataEndIndex,
                  prevState.updateId + 1, prevState))
  ELSE IF ~ isChildrenEqual(ChildrenOf(nextProps), ChildrenOf(prevProps))
  THEN LET dataStartIndex == prevState.dataStartIndex
           dataEndIndex == prevState.dataEndIndex
           hasBrush == "brush" \in DOMAIN nextProps
           startIndex == IF hasBrush /\ "startIndex" \in DOMAIN nextProps.brush
                         THEN nextProps.brush.startIndex ELSE dataStartIndex
           endIndex == IF hasBrush /\ "endIndex" \in DOMAIN nextProps.brush
                       THEN nextProps.brush.endIndex ELSE dataEndIndex
           hasDifferentStartOrEndIndex ==
             startIndex # dataStartIndex \/ endIndex # dataEndIndex
           newUpdateId == newUpdateIdOfChildren(nextProps, hasDifferentStartOrEndIndex, prevState)
       IN Merge(Merge([updateId |-> newUpdateId],
                      updateStateOfAxisMapsOffsetAndStackGroups(
                        nextProps, startIndex, endIndex, newUpdateId, prevState)),
                [dataStartIndex |-> startIndex, dataEndIndex |-> endIndex])
  ELSE EmptyObject

isMounted(i) == \E k \in 1..Len(listeners) : listeners[k] = i

Idle == bus.pending = << >>

(***************************************************************************)
(* throttle(this.triggeredAfterMouseMove, delay) with the default options  *)
(* (leading and trailing edge): timer tells whether the interval after an  *)
(* invocation is running, lastArgs holds the event kept for the trailing   *)
(* edge.                                                                   *)
(***************************************************************************)
NoTimer == [timer |-> FALSE, lastArgs |-> Null]

\* throttled.cancel()
cancel(th) == NoTimer

\* throttled(e): the leading edge invokes at once and starts the timer; a call
\* while the timer runs only replaces the event kept for the trailing edge
isLeadingCall(th) == ~ th.timer

throttledCall_keepFirst(th, e) ==
  IF isLeadingCall(th) THEN [timer |-> TRUE, lastArgs |-> Null]
  ELSE [th EXCEPT !.lastArgs = IF @ = Null THEN Some(e) ELSE @]

throttledCall(th, e) ==
  IF isLeadingCall(th) THEN [timer |-> TRUE, lastArgs |-> Null]
  ELSE [th EXCEPT !.lastArgs = Some(e)]

\* what handleMouseLeave does to the throttle before it sets the state
handleMouseLeaveThrottle_noCancel(th) == th

handleMouseLeaveThrottle(th) == cancel(th)

\* what componentWillUnmount does to the throttle
componentWillUnmountThrottle_noCancel(th) == th

componentWillUnmountThrottle(th) == cancel(th)

(***************************************************************************)
(* Actions.                                                                *)
(***************************************************************************)
\* a handler's setState(partial) followed by the emit of the given messages
SetStateAndEmit(op, i, input, partial, msgs) ==
  /\ state' = [state EXCEPT ![i] = Merge(@, partial)]
  /\ bus' = IF msgs = << >> THEN NoEmit ELSE [msg |-> msgs, pending |-> listeners]
  /\ obs' = [Called(op, i, input) EXCEPT !.emits = Len(msgs)]
  /\ UNCHANGED <<props, listeners>>

\* constructor, first getDerivedStateFromProps, componentDidMount with its
\* addListener and displayDefaultTooltip (the call record keeps the error the
\* latter threw, if any)
Mount(i) ==
  /\ Idle
  /\ ~ isMounted(i)
  /\ LET derived == getDerivedStateFromProps(props[i], props[i], EmptyObject)
         shown == displayDefaultTooltip(derived, props[i])
     IN /\ state' = [state EXCEPT ![i] = Merge(derived, shown.nextState)]
        /\ obs' = Called("mount", i, shown.thrown)
  /\ listeners' = Append(listeners, i)
  /\ bus' = NoEmit
  /\ throttle' = [throttle EXCEPT ![i] = NoTimer]
  /\ UNCHANGED props

\* the parent renders the chart with a new size: getDerivedStateFromProps
Resize(i, size) ==
  /\ Idle
  /\ isMounted(i)
  /\ state[i].updateId < MaxUpdateId
  /\ size.width # props[i].width \/ size.height # props[i].height
  /\ LET nextProps == Merge(props[i], size)
     IN /\ props' = [props EXCEPT ![i] = nextProps]
        /\ state' = [state EXCEPT ![i] =
                       Merge(@, getDerivedStateFromProps(nextProps, props[i], @))]
  /\ bus' = NoEmit
  /\ obs' = Called("resize", i, Null)
  /\ UNCHANGED <<listeners, throttle>>

\* a brush change that skips the comparison with the window of the state
handleBrushChange_unconditional(i, startIndex, endIndex) ==
  /\ Idle
  /\ UNCHANGED throttle
  /\ hasContainer(i)
  /\ endIndex < Len(props[i].data)
  /\ SetStateAndEmit("handleBrushChange", i,
       Some([startIndex |-> startIndex, endIndex |-> endIndex]),
       Merge([dataStartIndex |-> startIndex, dataEndIndex |-> endIndex],
             updateStateOfAxisMapsOffsetAndStackGroups(props[i], startIndex, endIndex,
                                                       state[i].updateId, state[i])),
       triggerSyncEvent(i, [dataStartIndex |-> startIndex, dataEndIndex |-> endIndex]))

handleBrushChange(i, startIndex, endIndex) ==
  /\ Idle
  /\ UNCHANGED throttle
  /\ hasContainer(i)
  /\ endIndex < Len(props[i].data)
  /\ IF startIndex # state[i].dataStartIndex \/ endIndex # state[i].dataEndIndex
     THEN SetStateAndEmit("handleBrushChange", i,
            Some([startIndex |-> startIndex, endIndex |-> endIndex]),
            Merge([dataStartIndex |-> startIndex, dataEndIndex |-> endIndex],
                  updateStateOfAxisMapsOffsetAndStackGroups(props[i], startIndex, endIndex,
                                                            state[i].updateId, state[i])),
            triggerSyncEvent(i, [dataStartIndex |-> startIndex, dataEndIndex |-> endIndex]))
     ELSE SetStateAndEmit("handleBrushChange", i,
            Some([startIndex |-> startIndex, endIndex |-> endIndex]),
            EmptyObject, << >>)

handleMouseEnter(i, e) ==
  /\ Idle
  /\ UNCHANGED throttle
  /\ hasContainer(i)
  /\ props[i].tooltipTrigger # "click"
  /\ LET mouse == getMouseInfo(i, e)
     IN IF mouse # Null
        THEN LET nextState == Merge(mouse[1], [isTooltipActive |-> TRUE])
             IN SetStateAndEmit("handleMouseEnter", i, Some(e), nextState, triggerSyncEvent(i, nextState))
        ELSE SetStateAndEmit("handleMouseEnter", i, Some(e), EmptyObject, << >>)

triggeredAfterMouseMove(i, e) ==
  /\ Idle
  /\ UNCHANGED throttle
  /\ hasContainer(i)
  /\ props[i].tooltipTrigger # "click"
  /\ LET mouse == getMouseInfo(i, e)
         nextState == IF mouse # Null THEN Merge(mouse[1], [isTooltipActive |-> TRUE])
                      ELSE [isTooltipActive |-> FALSE]
     IN SetStateAndEmit("triggeredAfterMouseMove", i, Some(e), nextState, triggerSyncEvent(i, nextState))

handleMouseLeave(i) ==
  /\ Idle
  /\ throttle' = [throttle EXCEPT ![i] = handleMouseLeaveThrottle(@)]
  /\ hasContainer(i)
  /\ props[i].tooltipTrigger # "click"
  /\ LET nextState == [isTooltipActive |-> FALSE]
     IN \* the call record keeps, as input, the event the cancel dropped
        SetStateAndEmit("handleMouseLeave", i, throttle[i].lastArgs, nextState,
                        triggerSyncEvent(i, nextState))

handleClick(i, e) ==
  /\ Idle
  /\ UNCHANGED throttle
  /\ hasContainer(i)
  /\ props[i].tooltipTrigger = "click"
  /\ LET mouse == getMouseInfo(i, e)
     IN IF mouse # Null
        THEN LET nextState == Merge(mouse[1], [isTooltipActive |-> TRUE])
             IN SetStateAndEmit("handleClick", i, Some(e), nextState, triggerSyncEvent(i, nextState))
        ELSE SetStateAndEmit("handleClick", i, Some(e), EmptyObject, << >>)

\* eventCenter calls the next listener of the emit in progress
Deliver ==
  /\ ~ Idle
  /\ LET j == Head(bus.pending)
         m == bus.msg[1]
         taken == receivesSyncEvent(j, m.cId, m.emitter)
         again == IF taken THEN applySyncEventEmits(j, m.data) ELSE << >>
     IN /\ \E custom \in (IF props[j].syncMethod = "function" THEN CustomResults ELSE {0}) :
             state' = [state EXCEPT ![j] = handleReceiveSyncEvent(j, m.cId, m.data, m.emitter, custom)]
        /\ bus' = IF again = << >> THEN [bus EXCEPT !.pending = Tail(@)]
                  ELSE [msg |-> again, pending |-> listeners]
        /\ obs' = [obs EXCEPT !.emits = Min(@ + Len(again), 3),
                              !.applied[j] = Min(@ + (IF taken THEN 1 ELSE 0), 3)]
  /\ UNCHANGED <<props, listeners, throttle>>

Init ==
  /\ \E kind \in [Charts -> 1..KindCount] :
       /\ Nondecreasing(kind)
       /\ props = [i \in Charts |-> Kind(kind[i], ValidSize)]
  /\ state = [i \in Charts |-> EmptyObject]
  /\ listeners = << >>
  /\ bus = NoEmit
  /\ obs = Called("none", 0, Null)
  /\ throttle = [i \in Charts |-> NoTimer]

Next ==
  \/ \E i \in Charts : Mount(i)
  \/ \E i \in Charts, w \in BrushWindows : handleBrushChange(i, w.startIndex, w.endIndex)
  \/ \E i \in Charts, e \in PointerEvents : handleMouseEnter(i, e)
  \/ \E i \in Charts, e \in PointerEvents : triggeredAfterMouseMove(i, e)
  \/ \E i \in Charts : handleMouseLeave(i)
  \/ \E i \in Charts, e \in PointerEvents : handleClick(i, e)
  \/ Deliver

Spec == Init /\ [][Next]_vars

(***************************************************************************)
(* The same charts under resizing: every chart has the sync id s1 and the  *)
(* index policy, starts with any of the sizes, and the parent may resize.  *)
(***************************************************************************)
SizeInit ==
  /\ \E chart \in [Charts -> 1..Len(ChartProfiles)], size \in [Charts -> 1..Len(Sizes)] :
       /\ Nondecreasing([i \in Charts |-> chart[i] * Len(Sizes) + size[i]])
       /\ props = [i \in Charts |->
                     ChartProps(SyncProfiles[2], ChartProfiles[chart[i]], Sizes[size[i]])]
  /\ state = [i \in Charts |-> EmptyObject]
  /\ listeners = << >>
  /\ bus = NoEmit
  /\ obs = Called("none", 0, Null)
  /\ throttle = [i \in Charts |-> NoTimer]

SizeNext ==
  \/ Next
  \/ \E i \in Charts, k \in 1..Len(Sizes) : Resize(i, Sizes[k])

SizeSpec == SizeInit /\ [][SizeNext]_vars

(***************************************************************************)
(* The throttled pointer move: handleMouseMove and handleTouchMove pass    *)
(* the event to throttleTriggeredAfterMouseMove, the timer of the throttle *)
(* delivers the trailing edge, componentWillUnmount ends the instance.     *)
(***************************************************************************)
\* the nextState of triggeredAfterMouseMove
nextStateAfterMouseMove(i, e) ==
  LET mouse == getMouseInfo(i, e)
  IN IF mouse # Null THEN Merge(mouse[1], [isTooltipActive |-> TRUE])
     ELSE [isTooltipActive |-> FALSE]

\* this.throttleTriggeredAfterMouseMove(e)
handleMouseMove(i, e) ==
  /\ Idle
  /\ hasContainer(i)
  /\ props[i].tooltipTrigger # "click"
  /\ throttle' = [throttle EXCEPT ![i] = throttledCall(@, e)]
  /\ IF isLeadingCall(throttle[i])
     THEN LET nextState == nextStateAfterMouseMove(i, e)
          IN SetStateAndEmit("handleMouseMove", i, Some(e), nextState,
                             triggerSyncEvent(i, nextState))
     ELSE SetStateAndEmit("handleMouseMove", i, Some(e), EmptyObject, << >>)

\* the timer of the throttle fires: the trailing edge invokes
\* triggeredAfterMouseMove with the event kept, if there is one; setState on
\* an instance that was unmounted changes nothing.  A call that follows the
\* trailing edge is again throttled or leading, depending on the time passed.
timerExpired(i) ==
  /\ Idle
  /\ throttle[i].timer
  /\ IF throttle[i].lastArgs # Null
     THEN LET e == throttle[i].lastArgs[1]
              nextState == nextStateAfterMouseMove(i, e)
          IN /\ SetStateAndEmit("timerExpired", i, Some(e),
                                IF isMounted(i) THEN nextState ELSE EmptyObject,
                                triggerSyncEvent(i, nextState))
             /\ \E again \in BOOLEAN :
                  throttle' = [throttle EXCEPT ![i] = [timer |-> again, lastArgs |-> Null]]
     ELSE /\ SetStateAndEmit("timerExpired", i, Null, EmptyObject, << >>)
          /\ throttle' = [throttle EXCEPT ![i] = NoTimer]

\* an unmount that leaves the handler on the channel
removeListener_kept(registered, i) == registered

\* eventCenter.removeListener(SYNC_EVENT, this.handleReceiveSyncEvent)
removeListener(registered, i) == SelectSeq(registered, LAMBDA j : j # i)

componentWillUnmount(i) ==
  /\ Idle
  /\ isMounted(i)
  /\ listeners' = removeListener(listeners, i)
  /\ throttle' = [throttle EXCEPT ![i] = componentWillUnmountThrottle(@)]
  /\ state' = [state EXCEPT ![i] = EmptyObject]
  /\ bus' = NoEmit
  /\ obs' = Called("componentWillUnmount", i, throttle[i].lastArgs)
  /\ UNCHANGED props

\* hover charts with dataset A; the sync profiles without, with the index and
\* with a custom policy
ThrottleSyncProfiles == << SyncProfiles[1], SyncProfiles[2], SyncProfiles[4] >>

ThrottleInit ==
  /\ \E kind \in [Charts -> 1..Len(ThrottleSyncProfiles)] :
       /\ Nondecreasing(kind)
       /\ props = [i \in Charts |->
                     ChartProps(ThrottleSyncProfiles[kind[i]], ChartProfiles[1], ValidSize)]
  /\ state = [i \in Charts |-> EmptyObject]
  /\ listeners = << >>
  /\ bus = NoEmit
  /\ obs = Called("none", 0, Null)
  /\ throttle = [i \in Charts |-> NoTimer]

ThrottleNext ==
  \/ \E i \in Charts : Mount(i)
  \/ \E i \in Charts : componentWillUnmount(i)
  \/ \E i \in Charts, e \in PointerEvents : handleMouseMove(i, e)
  \/ \E i \in Charts : timerExpired(i)
  \/ \E i \in Charts : handleMouseLeave(i)
  \/ Deliver

ThrottleSpec == ThrottleInit /\ [][ThrottleNext]_vars

\* The same with the scheduling of the event loop: a synchronous dispatch is
\* finished, and a timer that is due whenever the loop is free does fire.
\* Every chart has the sync id s1 and the index policy; the pointer moves over
\* one chart, the others mount, unmount and take mouse-leaves.
FairThrottleInit ==
  /\ ThrottleInit
  /\ \A i \in Charts : props[i].syncId = "s1" /\ props[i].syncMethod = "index"

HoveredChart == 1

FairThrottleNext ==
  \/ \E i \in Charts : Mount(i)
  \/ \E i \in Charts : componentWillUnmount(i)
  \/ \E e \in PointerEvents : handleMouseMove(HoveredChart, e)
  \/ \E i \in Charts : timerExpired(i)
  \/ \E i \in Charts : handleMouseLeave(i)
  \/ Deliver

FairThrottleSpec ==
  /\ FairThrottleInit
  /\ [][FairThrottleNext]_vars
  /\ WF_vars(Deliver)
  /\ \A i \in Charts : SF_vars(timerExpired(i))

(***************************************************************************)
(* calculateOffset on its own: the plot rectangle for bounded margins,     *)
(* axis sizes, brush and legend, before and after the legend is measured.  *)
(***************************************************************************)
OffsetSizes == { [width |-> 3, height |-> 3], ValidSize }

\* margins with the axes they are combined with
OffsetLayouts ==
  { [margin |-> MarginNarrow, xAxis |-> BaseChildren.xAxis, yAxis |-> BaseChildren.yAxis],
    [margin |-> MarginWide,
     xAxis |-> [BaseChildren.xAxis EXCEPT !.orientation = "top", !.height = 2],
     yAxis |-> [BaseChildren.yAxis EXCEPT !.orientation = "right", !.width = 2]] }

OffsetBrushes == { EmptyObject, [brush |-> [height |-> 1]] }

OffsetLegends ==
  { EmptyObject,
    [legend |-> [layout |-> "vertical", align |-> "right", verticalAlign |-> "middle"]],
    [legend |-> [layout |-> "horizontal", align |-> "center", verticalAlign |-> "bottom"]] }

\* the box the legend is measured to have
LegendBoxes == { [width |-> 2, height |-> 1] }

OffsetInputs ==
  { Merge(size, Merge(layout, Merge(brush, legend))) :
      size \in OffsetSizes, layout \in OffsetLayouts,
      brush \in OffsetBrushes, legend \in OffsetLegends }

OffsetInit ==
  /\ props \in [Charts -> OffsetInputs]
  /\ state = [i \in Charts |-> EmptyObject]
  /\ listeners = << >>
  /\ bus = NoEmit
  /\ obs = Called("none", 0, Null)
  /\ throttle = [i \in Charts |-> NoTimer]

\* the first pass: the legend is not measured yet
calculateOffsetCall(i) ==
  /\ "offset" \notin DOMAIN state[i]
  /\ state' = [state EXCEPT ![i] =
                 Merge(@, [offset |-> calculateOffset(props[i], Field(@, "legendBBox", Null))])]
  /\ obs' = Called("calculateOffset", i, Null)
  /\ UNCHANGED <<props, listeners, bus, throttle>>

\* the second pass: the offset with the box the legend was measured to have
calculateOffsetWithLegendCall(i, box) ==
  /\ "legend" \in DOMAIN props[i]
  /\ "offset" \in DOMAIN state[i]
  /\ "legendBBox" \notin DOMAIN state[i]
  /\ LET withBox == Merge(state[i], [legendBBox |-> Some(box)])
     IN state' = [state EXCEPT ![i] =
                    Merge(@, [legendBBox |-> Some(box),
                              offset |-> calculateOffset(props[i], withBox.legendBBox)])]
  /\ obs' = Called("calculateOffset", i, Some(box))
  /\ UNCHANGED <<props, listeners, bus, throttle>>

OffsetNext ==
  \/ \E i \in Charts : calculateOffsetCall(i)
  \/ \E i \in Charts, box \in LegendBoxes : calculateOffsetWithLegendCall(i, box)

OffsetSpec == OffsetInit /\ [][OffsetNext]_vars

(***************************************************************************)
(* Axis domains: getAxisMap for one axis of each kind, with the stack      *)
(* groups of the numeric axis.                                             *)
(***************************************************************************)
\* 'auto' in a domain specification; a fixed bound n is Some(n)
auto == Null

getDefaultDomainByAxisType_allAuto(axisType) ==
  IF axisType = "number" THEN Some(<< auto, auto >>) ELSE Null

getDefaultDomainByAxisType(axisType) ==
  IF axisType = "number" THEN Some(<< Some(0), auto >>) ELSE Null

isCategoricalAxis(layout, axisType) ==
  \/ layout = "horizontal" /\ axisType = "xAxis"
  \/ layout = "vertical" /\ axisType = "yAxis"

Values(arr) == { arr[k] : k \in DOMAIN arr }
MinOf(set) == CHOOSE x \in set : \A y \in set : x <= y
MaxOf(set) == CHOOSE x \in set : \A y \in set : x >= y

\* the values of a data key over the displayed records: their [min, max] for
\* a number axis, the list itself for a category axis
getDomainOfDataByKey(data, key, type) ==
  LET flattenData == [k \in 1..Len(data) |-> data[k][key]]
  IN IF type = "number"
     THEN IF flattenData = << >> THEN << >>
          ELSE << MinOf(Values(flattenData)), MaxOf(Values(flattenData)) >>
     ELSE flattenData

hasDuplicate(arr) == \E j, k \in DOMAIN arr : j # k /\ arr[j] = arr[k]

range(from, to) == [k \in 1..(to - from) |-> from + k - 1]

\* a domain of the axis element replaces the computed list of categories
parseDomainOfCategoryAxis(specifiedDomain, calculatedDomain) ==
  IF specifiedDomain = Null \/ specifiedDomain[1] = << >>
  THEN calculatedDomain
  ELSE specifiedDomain[1]

\* the explicit domain is adopted without a look at the data when the axis
\* permits overflow or is not a number axis
isDomainSpecifiedByUser(domain, allowDataOverflow, type) ==
  /\ domain # Null
  /\ \/ type # "number"
     \/ allowDataOverflow /\ domain[1][1] # auto /\ domain[1][2] # auto

\* a fixed bound stands (stretched to the data unless overflow is allowed),
\* an automatic bound is the bound of the data; without any record there is
\* no bound of the data and the specified domain stands as it is
parseSpecifiedDomain(specifiedDomain, dataDomain, allowDataOverflow) ==
  IF dataDomain = Null
  THEN IF allowDataOverflow THEN << specifiedDomain[1][1], specifiedDomain[2][1] >>
       ELSE specifiedDomain
  ELSE LET data == dataDomain[1]
       IN IF data = << >> THEN specifiedDomain
          ELSE
          << IF specifiedDomain[1] = auto THEN data[1]
             ELSE IF allowDataOverflow THEN specifiedDomain[1][1]
             ELSE Min(specifiedDomain[1][1], data[1]),
             IF specifiedDomain[2] = auto THEN data[2]
             ELSE IF allowDataOverflow THEN specifiedDomain[2][1]
             ELSE Max(specifiedDomain[2][1], data[2]) >>

\* the series that belong to the axis and count for its domain
ItemsOfAxis(graphicalItems, includeHidden) ==
  SelectSeq(graphicalItems, LAMBDA item : includeHidden \/ ~ item.hide)

\* [min, max] of the data keys of the series for a number axis, the union of
\* their values in first-occurrence order for a category axis
getDomainOfItemsWithSameAxis(data, items, type) ==
  IF type = "number"
  THEN LET all == UNION { Values(getDomainOfDataByKey(data, items[k].dataKey, "number")) :
                            k \in DOMAIN items }
       IN IF all = {} THEN << >> ELSE << MinOf(all), MaxOf(all) >>
  ELSE LET RECURSIVE Concat(_)
           Concat(k) == IF k = 0 THEN << >>
                        ELSE Concat(k - 1) \o getDomainOfDataByKey(data, items[k].dataKey, type)
       IN Dedup(Concat(Len(items)))

\* the sum of the first n members' values in one record
RECURSIVE SumOfMembers(_, _, _)
SumOfMembers(entry, items, n) ==
  IF n = 0 THEN 0 ELSE SumOfMembers(entry, items, n - 1) + entry[items[n].dataKey]

RECURSIVE ProductOf(_)
ProductOf(arr) ==
  IF arr = << >> THEN 1 ELSE arr[1] * ProductOf(Tail(arr))

\* the normalised extents of 'expand' are fractions: stacked values are kept
\* as whole multiples of 1 / StackUnit, where StackUnit is the product of the
\* non-zero totals of the categories (1 for 'none')
StackUnit(data, items, offsetType) ==
  IF offsetType = "expand"
  THEN ProductOf([j \in 1..Len(data) |->
                    LET total == SumOfMembers(data[j], items, Len(items))
                    IN IF total # 0 THEN total ELSE 1])
  ELSE 1

\* a total of zero cannot be normalised and is left as it is
offsetExpand(data, items, j, unit) ==
  LET total == SumOfMembers(data[j], items, Len(items))
  IN IF total # 0 THEN unit \div total ELSE 1

\* getStackedData: per member and per record the [base, top] extent; 'none'
\* stacks the members as they come, from baseline 0
getStackedData(data, items, offsetType) ==
  LET unit == StackUnit(data, items, offsetType)
  IN [n \in 1..Len(items) |->
        [j \in 1..Len(data) |->
           LET factor == IF offsetType = "expand" THEN offsetExpand(data, items, j, unit) ELSE 1
           IN << factor * SumOfMembers(data[j], items, n - 1),
                 factor * SumOfMembers(data[j], items, n) >>]]

Reverse(arr) == [k \in 1..Len(arr) |-> arr[Len(arr) + 1 - k]]

\* the stack groups of the one numeric axis: the series that carry a stack id
\* form one group per id; the modelled charts use at most one id
getStackGroupsByAxisId(data, graphicalItems, stackOffset, reverseStackOrder) ==
  LET items == IF reverseStackOrder THEN Reverse(graphicalItems) ELSE graphicalItems
      members == SelectSeq(items, LAMBDA item : item.stackId # Null /\ ~ item.hide)
  IN [ hasStack |-> members # << >>,
       items |-> members,
       unit |-> StackUnit(data, members, stackOffset),
       stackedData |-> getStackedData(data, members, stackOffset) ]

\* the union of the extents of the members over the windowed records
getDomainOfStackGroups(stackGroups, startIndex, endIndex) ==
  LET stackedData == stackGroups.stackedData
      ends == UNION { UNION { Values(stackedData[n][j]) :
                                j \in (startIndex + 1)..Min(endIndex + 1, Len(stackedData[n])) } :
                        n \in DOMAIN stackedData }
  IN IF ends = {} THEN << 0, 0 >>
     ELSE << MinOf(ends) \div stackGroups.unit, MaxOf(ends) \div stackGroups.unit >>

\* getAxisMapByAxes for the one axis element of an axis type (the modelled
\* charts declare no reference elements and no error bars)
\* the domain of a number axis without data key whose series are stacked
getDomainOfStackedAxis_alwaysUnit(p, stackGroups, dataStartIndex, dataEndIndex) ==
  << 0, 1 >>

getDomainOfStackedAxis(p, stackGroups, dataStartIndex, dataEndIndex) ==
  IF p.stackOffset = "expand" THEN << 0, 1 >>
  ELSE getDomainOfStackGroups(stackGroups, dataStartIndex, dataEndIndex)

getAxisMapByAxes(p, child, axisType, stackGroups, dataStartIndex, dataEndIndex) ==
  LET isCategorical == isCategoricalAxis(p.layout, axisType)
      type == child.type
      allowDuplicatedCategory == child.allowDuplicatedCategory
      displayedData == getDisplayedData(p.data, p.graphicalItems, dataStartIndex, dataEndIndex)
      len == Len(displayedData)
      defaultDomain == getDefaultDomainByAxisType(type)
      childDomain == IF child.domain # Null THEN child.domain ELSE defaultDomain
      specified == IF isDomainSpecifiedByUser(child.domain, child.allowDataOverflow, type)
                   THEN parseSpecifiedDomain(child.domain[1], Null, child.allowDataOverflow)
                   ELSE << >>
      byKey == getDomainOfDataByKey(displayedData, child.dataKey[1], type)
      serial == /\ child.dataKey # Null /\ type = "category" /\ isCategorical
                /\ allowDuplicatedCategory /\ hasDuplicate(byKey)
      computed ==
        IF child.dataKey # Null
        THEN IF type = "category" /\ isCategorical
             THEN IF serial THEN range(0, len)
                  ELSE IF ~ allowDuplicatedCategory
                  THEN Dedup(parseDomainOfCategoryAxis(childDomain, byKey))
                  ELSE byKey
             ELSE IF type = "category"
             THEN IF ~ allowDuplicatedCategory
                  THEN Dedup(parseDomainOfCategoryAxis(childDomain, byKey))
                  ELSE byKey
             ELSE byKey
        ELSE IF isCategorical THEN range(0, len)
        ELSE IF stackGroups.hasStack /\ type = "number"
        THEN getDomainOfStackedAxis(p, stackGroups, dataStartIndex, dataEndIndex)
        ELSE getDomainOfItemsWithSameAxis(displayedData,
                                          ItemsOfAxis(p.graphicalItems, child.includeHidden), type)
      isDomainValid == \A k \in DOMAIN computed : computed[k] \in Values(childDomain[1])
      domain ==
        IF specified # << >> THEN specified
        ELSE IF type = "number"
        THEN parseSpecifiedDomain(childDomain[1], Some(computed), child.allowDataOverflow)
        ELSE IF type = "category" /\ childDomain # Null /\ isDomainValid
        THEN childDomain[1]
        ELSE computed
  IN [ domain |-> domain,
       duplicateDomain |-> IF specified = << >> /\ serial THEN Some(byKey) ELSE Null,
       originalDomain |-> childDomain,
       isCategorical |-> isCategorical,
       declared |-> TRUE ]

\* getAxisMapByItems: the axis no element declares, derived from the series
getAxisMapByItems(p, axisType, stackGroups, dataStartIndex, dataEndIndex) ==
  LET displayedData == getDisplayedData(p.data, p.graphicalItems, dataStartIndex, dataEndIndex)
      isCategorical == isCategoricalAxis(p.layout, axisType)
      originalDomain == getDefaultDomainByAxisType("number")
  IN [ domain |->
         IF isCategorical THEN range(0, Len(displayedData))
         ELSE IF stackGroups.hasStack
         THEN getDomainOfStackGroups(stackGroups, dataStartIndex, dataEndIndex)
         ELSE parseSpecifiedDomain(originalDomain[1],
                Some(getDomainOfItemsWithSameAxis(displayedData,
                       ItemsOfAxis(p.graphicalItems, FALSE), "number")),
                FALSE),
       duplicateDomain |-> Null,
       originalDomain |-> originalDomain,
       isCategorical |-> isCategorical,
       declared |-> FALSE ]

getAxisMap(p, axisType, stackGroups, dataStartIndex, dataEndIndex) ==
  IF axisType \in DOMAIN p
  THEN getAxisMapByAxes(p, p[axisType], axisType, stackGroups, dataStartIndex, dataEndIndex)
  ELSE getAxisMapByItems(p, axisType, stackGroups, dataStartIndex, dataEndIndex)

StackData ==
  << [name |-> "a", x |-> 1, a |-> 2, b |-> 3],
     [name |-> "b", x |-> 2, a |-> 3, b |-> 1],
     [name |-> "a", x |-> 3, a |-> 1, b |-> 4] >>
ZeroData ==
  << [name |-> "c", x |-> 1, a |-> 0, b |-> 0],
     [name |-> "d", x |-> 2, a |-> 0, b |-> 0] >>

AxisDefaults ==
  [ type |-> "category", dataKey |-> Null, domain |-> Null, allowDataOverflow |-> FALSE,
    allowDuplicatedCategory |-> TRUE, includeHidden |-> FALSE ]

\* the x axis elements: the category axis of the horizontal layout
XAxisSpecs ==
  { [AxisDefaults EXCEPT !.dataKey = Some("name")],
    [AxisDefaults EXCEPT !.dataKey = Some("name"), !.allowDuplicatedCategory = FALSE],
    [AxisDefaults EXCEPT !.dataKey = Some("name"), !.allowDuplicatedCategory = FALSE,
                         !.domain = Some(<< "a", "b", "a" >>)],
    [AxisDefaults EXCEPT !.dataKey = Some("name"), !.allowDuplicatedCategory = FALSE,
                         !.domain = Some(<< "a", "b", "c", "d" >>)],
    AxisDefaults }

\* the y axis elements: none, number axes, and a category axis in the
\* numeric position
YAxisSpecs ==
  { EmptyObject,
    [yAxis |-> [AxisDefaults EXCEPT !.type = "number"]],
    [yAxis |-> [AxisDefaults EXCEPT !.type = "number", !.dataKey = Some("a")]],
    [yAxis |-> [AxisDefaults EXCEPT !.dataKey = Some("name"), !.allowDuplicatedCategory = FALSE]],
    [yAxis |-> [AxisDefaults EXCEPT !.dataKey = Some("name"), !.allowDuplicatedCategory = FALSE,
                                    !.domain = Some(<< "a", "a", "b" >>)]] }

SeriesSets ==
  { << [dataKey |-> "a", stackId |-> Null, hide |-> FALSE] >>,
    << [dataKey |-> "a", stackId |-> Some("s"), hide |-> FALSE],
       [dataKey |-> "b", stackId |-> Some("s"), hide |-> FALSE] >>,
    << [dataKey |-> "a", stackId |-> Null, hide |-> FALSE],
       [dataKey |-> "b", stackId |-> Null, hide |-> TRUE] >> }

DomainInputs ==
  { Merge([layout |-> "horizontal", data |-> data, xAxis |-> xAxis, graphicalItems |-> items,
           stackOffset |-> stackOffset, reverseStackOrder |-> reverseStackOrder], yAxis) :
      data \in {StackData, ZeroData}, xAxis \in XAxisSpecs, yAxis \in YAxisSpecs,
      items \in SeriesSets, stackOffset \in {"none", "expand"}, reverseStackOrder \in BOOLEAN }

\* every instance gets the same chart; the window is the whole data or its
\* first two records
DomainInit ==
  /\ \E p \in DomainInputs, dataEndIndex \in {1, 2} :
       /\ dataEndIndex < Len(p.data)
       /\ props = [i \in Charts |-> p]
       /\ state = [i \in Charts |-> [dataStartIndex |-> 0, dataEndIndex |-> dataEndIndex]]
  /\ listeners = << >>
  /\ bus = NoEmit
  /\ obs = Called("none", 0, Null)
  /\ throttle = [i \in Charts |-> NoTimer]

NoStackGroups == getStackGroupsByAxisId(<< >>, << >>, "none", FALSE)

\* the stack groups and the axis maps updateStateOfAxisMapsOffsetAndStackGroups
\* computes; only the numeric axis is handed the stack groups
getAxisMapCall(i) ==
  /\ "stackGroups" \notin DOMAIN state[i]
  /\ LET p == props[i]
         axisNames == getAxisNameByLayout(p.layout)
         stackGroups == getStackGroupsByAxisId(p.data, p.graphicalItems, p.stackOffset,
                                               p.reverseStackOrder)
         axisMap(axisType) ==
           getAxisMap(p, axisType,
                      IF axisType = axisNames.numericAxisName THEN stackGroups ELSE NoStackGroups,
                      state[i].dataStartIndex, state[i].dataEndIndex)
     IN state' = [state EXCEPT ![i] =
                    Merge(@, [stackGroups |-> stackGroups,
                              xAxisMap |-> axisMap("xAxis"),
                              yAxisMap |-> axisMap("yAxis")])]
  /\ obs' = Called("getAxisMap", i, Null)
  /\ UNCHANGED <<props, listeners, bus, throttle>>

DomainNext == \E i \in Charts : getAxisMapCall(i)

DomainSpec == DomainInit /\ [][DomainNext]_vars

\* the same charts without the axis elements whose own domain lists a value
\* twice
UniqueOverrideInit ==
  /\ DomainInit
  /\ \A i \in Charts : \A axisType \in {"xAxis", "yAxis"} \cap DOMAIN props[i] :
       props[i][axisType].domain = Null \/ ~ hasDuplicate(props[i][axisType].domain[1])

UniqueOverrideSpec == UniqueOverrideInit /\ [][DomainNext]_vars

(***************************************************************************)
(* Axis ids: the axis maps keyed by axis id, and getFormatItems looking up *)
(* the axes a series refers to.                                            *)
(***************************************************************************)
ORIENT_MAP == [xAxis |-> << "bottom", "top" >>, yAxis |-> << "left", "right" >>]

\* get(ORIENT_MAP, `${axisType}.${index % 2}`, null)
OrientationOf(axisType, index) ==
  IF axisType \in DOMAIN ORIENT_MAP THEN Some(ORIENT_MAP[axisType][(index % 2) + 1]) ELSE Null

NoAxes == [map |-> EmptyObject, index |-> 0 - 1]

\* one step of the reduce of getAxisMapByItems: a series whose axis id is new
\* creates a hidden axis and advances the index
ImplicitAxisStep_indexPerItem(acc, child, axisType) ==
  LET axisId == child.axisId[axisType]
  IN IF axisId \in DOMAIN acc.map THEN [acc EXCEPT !.index = @ + 1]
     ELSE [ map |-> (axisId :> [axisType |-> axisType, hide |-> TRUE, declared |-> FALSE,
                                orientation |-> OrientationOf(axisType, acc.index + 1)]) @@ acc.map,
            index |-> acc.index + 1 ]

ImplicitAxisStep(acc, child, axisType) ==
  LET axisId == child.axisId[axisType]
  IN IF axisId \in DOMAIN acc.map THEN acc
     ELSE [ map |-> (axisId :> [axisType |-> axisType, hide |-> TRUE, declared |-> FALSE,
                                orientation |-> OrientationOf(axisType, acc.index + 1)]) @@ acc.map,
            index |-> acc.index + 1 ]

RECURSIVE ImplicitAxes(_, _)
ImplicitAxes(graphicalItems, axisType) ==
  IF graphicalItems = << >> THEN NoAxes
  ELSE ImplicitAxisStep(ImplicitAxes(SubSeq(graphicalItems, 1, Len(graphicalItems) - 1), axisType),
                        graphicalItems[Len(graphicalItems)], axisType)

\* the reduce of getAxisMapByAxes: the first element of an axis id stands
RECURSIVE DeclaredAxes(_, _)
DeclaredAxes(axes, axisType) ==
  IF axes = << >> THEN EmptyObject
  ELSE LET result == DeclaredAxes(SubSeq(axes, 1, Len(axes) - 1), axisType)
           child == axes[Len(axes)]
       IN IF child.axisId \in DOMAIN result THEN result
          ELSE (child.axisId :> [axisType |-> axisType, hide |-> child.hide, declared |-> TRUE,
                                 orientation |-> Some(child.orientation)]) @@ result

\* getAxisMap: from the axis elements if there are any, else from the series
AxisMapById(p, axisType) ==
  IF p.axes[axisType] # << >> THEN DeclaredAxes(p.axes[axisType], axisType)
  ELSE IF p.graphicalItems # << >> THEN ImplicitAxes(p.graphicalItems, axisType).map
  ELSE EmptyObject

\* the condition getFormatItems asserts for a series and an axis type
invariantHolds_unchecked(axisMap, id, axisType) == TRUE

invariantHolds(axisMap, id, axisType) == id \in DOMAIN axisMap \/ axisType = "zAxis"

\* getFormatItems: every series with the axis it refers to per axis type
\* (undefined when the map has no such axis), or the failed assertion
getFormatItems(p, axisMaps) ==
  LET types == Values(p.axisComponents)
      items == p.graphicalItems
  IN IF \E k \in DOMAIN items : \E axisType \in types :
          ~ invariantHolds(axisMaps[axisType], items[k].axisId[axisType], axisType)
     THEN [thrown |-> Some("Invariant failed"), formattedItems |-> << >>]
     ELSE [ thrown |-> Null,
            formattedItems |->
              [k \in DOMAIN items |->
                 [ item |-> items[k],
                   axes |-> [axisType \in types |->
                               IF items[k].axisId[axisType] \in DOMAIN axisMaps[axisType]
                               THEN Some(axisMaps[axisType][items[k].axisId[axisType]])
                               ELSE Null] ]] ]

\* a series referring to the given x and y axis ids (z axis id 0)
SeriesOn(xAxisId, yAxisId) ==
  [dataKey |-> "a", axisId |-> [xAxis |-> xAxisId, yAxis |-> yAxisId, zAxis |-> 0]]

AxisElement(axisId, orientation) == [axisId |-> axisId, orientation |-> orientation, hide |-> FALSE]

\* the axis types a chart kind works with: cartesian charts, scatter charts
AxisComponentSets == { << "xAxis", "yAxis" >>, << "xAxis", "yAxis", "zAxis" >> }

AxisIdSeries ==
  { << SeriesOn(0, 0) >>,
    << SeriesOn(0, 0), SeriesOn(1, 0) >>,
    << SeriesOn(1, 0), SeriesOn(0, 0), SeriesOn(1, 1), SeriesOn(2, 0) >>,
    << SeriesOn(0, 1) >> }

XAxisElements ==
  { << >>, << AxisElement(0, "bottom") >>,
    << AxisElement(0, "bottom"), AxisElement(1, "top") >>,
    << AxisElement(1, "top"), AxisElement(1, "bottom") >> }
YAxisElements == { << >>, << AxisElement(0, "left") >> }
ZAxisElements == { << >>, << AxisElement(1, "left") >> }

AxisIdInputs ==
  { [ layout |-> "horizontal", axisComponents |-> axisComponents, graphicalItems |-> items,
      axes |-> [xAxis |-> x, yAxis |-> y, zAxis |-> z] ] :
      axisComponents \in AxisComponentSets, items \in AxisIdSeries,
      x \in XAxisElements, y \in YAxisElements, z \in ZAxisElements }

AxisIdInit ==
  /\ \E p \in AxisIdInputs : props = [i \in Charts |-> p]
  /\ state = [i \in Charts |-> EmptyObject]
  /\ listeners = << >>
  /\ bus = NoEmit
  /\ obs = Called("none", 0, Null)
  /\ throttle = [i \in Charts |-> NoTimer]

\* the axis maps of the chart's axis types, then getFormatItems; a failed
\* assertion leaves the state as it was
getFormatItemsCall(i) ==
  /\ "formattedGraphicalItems" \notin DOMAIN state[i]
  /\ LET p == props[i]
         axisMaps == [axisType \in Values(p.axisComponents) |-> AxisMapById(p, axisType)]
         formatted == getFormatItems(p, axisMaps)
     IN /\ state' = [state EXCEPT ![i] =
                       IF formatted.thrown # Null THEN @
                       ELSE Merge(@, [axisMaps |-> axisMaps,
                                      formattedGraphicalItems |-> formatted.formattedItems])]
        /\ obs' = Called("getFormatItems", i, formatted.thrown)
  /\ UNCHANGED <<props, listeners, bus, throttle>>

AxisIdNext == \E i \in Charts : getFormatItemsCall(i)

AxisIdSpec == AxisIdInit /\ [][AxisIdNext]_vars

(***************************************************************************)
(* A chart without records: the data prop is the empty list or is not      *)
(* given at all (both are the value Null here, and the code tests          *)
(* data && data.length for both).                                          *)
(***************************************************************************)
EmptyDataInputs ==
  { Merge([layout |-> layout, data |-> << >>, xAxis |-> xAxis, graphicalItems |-> items,
           stackOffset |-> stackOffset, reverseStackOrder |-> FALSE], yAxis) :
      layout \in {"horizontal", "vertical"}, xAxis \in XAxisSpecs, yAxis \in YAxisSpecs,
      items \in SeriesSets, stackOffset \in {"none", "expand"} }

EmptyDataInit ==
  /\ \E p \in EmptyDataInputs : props = [i \in Charts |-> p]
  /\ state = [i \in Charts |-> EmptyObject]
  /\ listeners = << >>
  /\ bus = NoEmit
  /\ obs = Called("none", 0, Null)
  /\ throttle = [i \in Charts |-> NoTimer]

\* the constructor's state
createDefaultStateCall(i) ==
  /\ state[i] = EmptyObject
  /\ state' = [state EXCEPT ![i] = createDefaultState(props[i])]
  /\ obs' = Called("createDefaultState", i, Null)
  /\ UNCHANGED <<props, listeners, bus, throttle>>

\* the indexes a pointer position may resolve to
ActiveIndexes == {0 - 1, 0, 1}

\* the tooltip content of an index, on the state the axis maps were computed
\* into (graphicalItems and tooltipAxis are what
\* updateStateOfAxisMapsOffsetAndStackGroups stores)
getTooltipContentCall(i, activeIndex) ==
  /\ "stackGroups" \in DOMAIN state[i]
  /\ "activePayload" \notin DOMAIN state[i]
  /\ LET p == props[i]
         cateAxisName == getAxisNameByLayout(p.layout).cateAxisName
         st == Merge(state[i], [graphicalItems |-> p.graphicalItems,
                                tooltipAxis |-> state[i][cateAxisName \o "Map"]])
     IN state' = [state EXCEPT ![i] =
                    Merge(@, [activeTooltipIndex |-> activeIndex,
                              activePayload |-> getTooltipContent(st, p.data, activeIndex,
                                                                  Undefined)])]
  /\ obs' = Called("getTooltipContent", i, Some(activeIndex))
  /\ UNCHANGED <<props, listeners, bus, throttle>>

EmptyDataNext ==
  \/ \E i \in Charts : createDefaultStateCall(i)
  \/ \E i \in Charts : "dataStartIndex" \in DOMAIN state[i] /\ getAxisMapCall(i)
  \/ \E i \in Charts, activeIndex \in ActiveIndexes : getTooltipContentCall(i, activeIndex)

EmptyDataSpec == EmptyDataInit /\ [][EmptyDataNext]_vars

(***************************************************************************)
(* The pipeline as a function of its arguments: the props, the window, the *)
(* update id and the previous state it is handed.                          *)
(***************************************************************************)
PipelineInputs ==
  { Merge(ChartProps(SyncProfiles[1], ChartProfiles[c], Sizes[k]), legend) :
      c \in 1..Len(ChartProfiles), k \in 1..Len(Sizes), legend \in OffsetLegends }

\* previous states: of a new instance, with a measured legend, with an offset
\* and a tooltip of an earlier pass
PrevStates ==
  { EmptyObject,
    [legendBBox |-> Some([width |-> 2, height |-> 1])],
    [offset |-> [top |-> 0, bottom |-> 0, left |-> 0, right |-> 0, brushBottom |-> 0,
                 width |-> 1, height |-> 1],
     activeTooltipIndex |-> 1, isTooltipActive |-> TRUE],
    [legendBBox |-> Some([width |-> 2, height |-> 1]),
     offset |-> [top |-> 0, bottom |-> 0, left |-> 0, right |-> 0, brushBottom |-> 0,
                 width |-> 1, height |-> 1],
     activeTooltipIndex |-> 0, isTooltipActive |-> FALSE] }

PipelineInit ==
  /\ \E p \in PipelineInputs : props = [i \in Charts |-> p]
  /\ state = [i \in Charts |-> EmptyObject]
  /\ listeners = << >>
  /\ bus = NoEmit
  /\ obs = Called("none", 0, Null)
  /\ throttle = [i \in Charts |-> NoTimer]

\* one call; the arguments are kept next to the result
updateStateCall(i, w, updateId, prevState) ==
  /\ state[i] = EmptyObject
  /\ state' = [state EXCEPT ![i] =
                 Merge([dataStartIndex |-> w.startIndex, dataEndIndex |-> w.endIndex,
                        updateId |-> updateId, prevState |-> prevState],
                       updateStateOfAxisMapsOffsetAndStackGroups(
                         props[i], w.startIndex, w.endIndex, updateId, prevState))]
  /\ obs' = Called("updateStateOfAxisMapsOffsetAndStackGroups", i, Null)
  /\ UNCHANGED <<props, listeners, bus, throttle>>

PipelineNext ==
  \E i \in Charts, w \in BrushWindows, updateId \in 0..1, prevState \in PrevStates :
    updateStateCall(i, w, updateId, prevState)

PipelineSpec == PipelineInit /\ [][PipelineNext]_vars

(***************************************************************************)
(* The legend reports its measured box after the render that follows the   *)
(* first pass; the report is the second input of the offset.               *)
(***************************************************************************)
\* what the legend reports: null while it is not laid out, or its box
LegendReports == {Null} \cup { Some(box) : box \in LegendBoxes \cup {[width |-> 1, height |-> 2]} }

handleLegendBBoxUpdate(i, box) ==
  /\ Idle
  /\ hasContainer(i)
  /\ "legend" \in DOMAIN props[i]
  /\ IF box # Null
     THEN LET dataStartIndex == state[i].dataStartIndex
              dataEndIndex == state[i].dataEndIndex
              updateId == state[i].updateId
          IN state' = [state EXCEPT ![i] =
               Merge(@, Merge([legendBBox |-> box],
                              updateStateOfAxisMapsOffsetAndStackGroups(
                                props[i], dataStartIndex, dataEndIndex, updateId,
                                Merge(@, [legendBBox |-> box]))))]
     ELSE state' = state
  /\ obs' = Called("handleLegendBBoxUpdate", i, box)
  /\ UNCHANGED <<props, listeners, bus, throttle>>

LegendNext ==
  \/ \E i \in Charts : Mount(i)
  \/ \E i \in Charts, box \in LegendReports : handleLegendBBoxUpdate(i, box)
  \/ \E i \in Charts, w \in BrushWindows : handleBrushChange(i, w.startIndex, w.endIndex)

LegendSpec == PipelineInit /\ [][LegendNext]_vars

(***************************************************************************)
(* The state of a new instance, for charts with and without records and    *)
(* with and without a brush element that gives indexes.                    *)
(***************************************************************************)
BrushIndexes == {0 - 1, 0, 1, 2}

BrushElements ==
  { EmptyObject, [brush |-> [height |-> 1]] }
    \cup { [brush |-> [height |-> 1, startIndex |-> s]] : s \in BrushIndexes }
    \cup { [brush |-> [height |-> 1, endIndex |-> e]] : e \in BrushIndexes }
    \cup { [brush |-> [height |-> 1, startIndex |-> s, endIndex |-> e]] :
             s \in BrushIndexes, e \in BrushIndexes }

DefaultStateInputs ==
  { Merge([data |-> data], brush) : data \in {<< >>, DataA, StackData}, brush \in BrushElements }

DefaultStateInit ==
  /\ \E p \in DefaultStateInputs : props = [i \in Charts |-> p]
  /\ state = [i \in Charts |-> EmptyObject]
  /\ listeners = << >>
  /\ bus = NoEmit
  /\ obs = Called("none", 0, Null)
  /\ throttle = [i \in Charts |-> NoTimer]

DefaultStateNext == \E i \in Charts : createDefaultStateCall(i)

DefaultStateSpec == DefaultStateInit /\ [][DefaultStateNext]_vars

(***************************************************************************)
(* calculateOffset over charts with several axes per dimension and with    *)
(* margins that are absent or give some sides only.                        *)
(***************************************************************************)
OffsetAxis(orientation, size, hide, mirror) ==
  [orientation |-> orientation, width |-> size, height |-> size, hide |-> hide,
   mirror |-> mirror]

XAxisMaps ==
  { << OffsetAxis("bottom", 1, FALSE, FALSE) >>,
    << OffsetAxis("bottom", 1, FALSE, FALSE), OffsetAxis("top", 2, FALSE, FALSE) >>,
    << OffsetAxis("bottom", 1, FALSE, FALSE), OffsetAxis("bottom", 2, FALSE, FALSE),
       OffsetAxis("top", 1, TRUE, FALSE) >>,
    << OffsetAxis("top", 2, FALSE, TRUE) >> }

YAxisMaps ==
  { << OffsetAxis("left", 1, FALSE, FALSE) >>,
    << OffsetAxis("left", 2, FALSE, FALSE), OffsetAxis("right", 1, FALSE, FALSE),
       OffsetAxis("left", 1, FALSE, FALSE) >>,
    << OffsetAxis("right", 2, TRUE, FALSE), OffsetAxis("left", 1, FALSE, TRUE) >> }

OffsetMargins ==
  { EmptyObject, [margin |-> [top |-> 1, left |-> 2]], [margin |-> MarginWide] }

AxisOffsetInputs ==
  { Merge(ValidSize,
      Merge([xAxisMap |-> xAxisMap, yAxisMap |-> yAxisMap], Merge(margin, Merge(brush, legend)))) :
      xAxisMap \in XAxisMaps, yAxisMap \in YAxisMaps, margin \in OffsetMargins,
      brush \in OffsetBrushes, legend \in OffsetLegends }

AxisOffsetInit ==
  /\ \E p \in AxisOffsetInputs : props = [i \in Charts |-> p]
  /\ state = [i \in Charts |-> EmptyObject]
  /\ listeners = << >>
  /\ bus = NoEmit
  /\ obs = Called("none", 0, Null)
  /\ throttle = [i \in Charts |-> NoTimer]

AxisOffsetSpec == AxisOffsetInit /\ [][OffsetNext]_vars

(***************************************************************************)
(* getDisplayedData over charts whose series carry data of their own.      *)
(***************************************************************************)
SeriesDataA == << [name |-> "x", uv |-> 7], [name |-> "y", uv |-> 8] >>
SeriesDataB == << [name |-> "z", uv |-> 9] >>

\* the series: none with own data, one of two, an empty own list, all three
DisplayedItems ==
  { << [dataKey |-> "uv"] >>,
    << [dataKey |-> "uv", data |-> SeriesDataA], [dataKey |-> "uv"] >>,
    << [dataKey |-> "uv", data |-> << >>], [dataKey |-> "uv"] >>,
    << [dataKey |-> "uv", data |-> SeriesDataB], [dataKey |-> "uv", data |-> << >>],
       [dataKey |-> "uv", data |-> SeriesDataA] >> }

DisplayedInputs ==
  { [data |-> data, graphicalItems |-> items] :
      data \in {<< >>, DataA, DataB}, items \in DisplayedItems }

\* the windows handed to the function: inside the data, beyond its end, and
\* with an index that is not a number
DisplayedWindows ==
  { [startIndex |-> 0, endIndex |-> 0], [startIndex |-> 0, endIndex |-> 1],
    [startIndex |-> 1, endIndex |-> 2], [startIndex |-> NaN, endIndex |-> 1],
    [startIndex |-> 0, endIndex |-> NaN] }

DisplayedInit ==
  /\ \E p \in DisplayedInputs : props = [i \in Charts |-> p]
  /\ state = [i \in Charts |-> EmptyObject]
  /\ listeners = << >>
  /\ bus = NoEmit
  /\ obs = Called("none", 0, Null)
  /\ throttle = [i \in Charts |-> NoTimer]

getDisplayedDataCall(i, w) ==
  /\ state[i] = EmptyObject
  /\ state' = [state EXCEPT ![i] =
                 [dataStartIndex |-> w.startIndex, dataEndIndex |-> w.endIndex,
                  displayedData |-> getDisplayedData(props[i].data, props[i].graphicalItems,
                                                     w.startIndex, w.endIndex)]]
  /\ obs' = Called("getDisplayedData", i, Some(w))
  /\ UNCHANGED <<props, listeners, bus, throttle>>

DisplayedNext == \E i \in Charts, w \in DisplayedWindows : getDisplayedDataCall(i, w)

DisplayedSpec == DisplayedInit /\ [][DisplayedNext]_vars

(***************************************************************************)
(* getTooltipContent over series with and without data of their own and   *)
(* tooltip axes that match by category key or by position.                 *)
(***************************************************************************)
TooltipSeries ==
  { << >>,
    << [dataKey |-> "uv"] >>,
    << [dataKey |-> "uv", data |-> SeriesDataA], [dataKey |-> "uv"] >>,
    << [dataKey |-> "uv", data |-> SeriesDataB], [dataKey |-> "uv", data |-> SeriesDataA] >> }

TooltipAxes ==
  { [dataKey |-> "name", allowDuplicatedCategory |-> FALSE],
    [dataKey |-> "name", allowDuplicatedCategory |-> TRUE],
    [allowDuplicatedCategory |-> FALSE] }

TooltipInputs ==
  { [data |-> DataA, graphicalItems |-> items, tooltipAxis |-> axis] :
      items \in TooltipSeries, axis \in TooltipAxes }

TooltipInit ==
  /\ \E p \in TooltipInputs : props = [i \in Charts |-> p]
  /\ state = [i \in Charts |-> EmptyObject]
  /\ listeners = << >>
  /\ bus = NoEmit
  /\ obs = Called("none", 0, Null)
  /\ throttle = [i \in Charts |-> NoTimer]

TooltipWindows ==
  { [startIndex |-> 0, endIndex |-> 0], [startIndex |-> 0, endIndex |-> 2],
    [startIndex |-> 1, endIndex |-> 2] }
TooltipIndexes == {0 - 1, 0, 1, 3}
TooltipLabels == {"a", "y"}

\* the content for an index and a label, on a state with the given window
getTooltipContentOfCall(i, w, activeIndex, activeLabel) ==
  /\ state[i] = EmptyObject
  /\ LET st == [graphicalItems |-> props[i].graphicalItems,
                tooltipAxis |-> props[i].tooltipAxis,
                dataStartIndex |-> w.startIndex, dataEndIndex |-> w.endIndex]
     IN state' = [state EXCEPT ![i] =
                    Merge(st, [activeTooltipIndex |-> activeIndex,
                               activeLabel |-> activeLabel,
                               activePayload |-> getTooltipContent(st, props[i].data,
                                                                   activeIndex, activeLabel)])]
  /\ obs' = Called("getTooltipContent", i, Some(activeIndex))
  /\ UNCHANGED <<props, listeners, bus, throttle>>

TooltipNext ==
  \E i \in Charts, w \in TooltipWindows, activeIndex \in TooltipIndexes,
     activeLabel \in TooltipLabels :
    getTooltipContentOfCall(i, w, activeIndex, activeLabel)

TooltipSpec == TooltipInit /\ [][TooltipNext]_vars

(***************************************************************************)
(* The default tooltip at mount: charts whose Tooltip element is absent,   *)
(* gives no defaultIndex, or gives one that is a number inside or outside  *)
(* the ticks, NaN, or a string; with and without a Scatter series, on a    *)
(* valid and on a degenerate size.                                         *)
(***************************************************************************)
\* a value of the defaultIndex prop with its typeof
IndexValue(typeof, value) == [typeof |-> typeof, value |-> value]

TooltipElements ==
  { [trigger |-> "hover"] }
    \cup { [trigger |-> "hover", defaultIndex |-> IndexValue("number", k)] :
             k \in {0 - 1, 0, 1, 2, 3, NaN} }
    \cup { [trigger |-> "hover", defaultIndex |-> IndexValue("string", 1)] }

\* the point a Scatter element composed for a record
ScatterPoint(n) ==
  [ tooltipPosition |-> [x |-> 7, y |-> 4],
    tooltipPayload |-> << [name |-> "x", value |-> n] >> ]

DefaultTooltipSeries ==
  { << [dataKey |-> "uv"] >>,
    << [dataKey |-> "uv"],
       [dataKey |-> "uv", type |-> "Scatter",
        points |-> << ScatterPoint(1), ScatterPoint(2), ScatterPoint(3) >>] >>,
    << [dataKey |-> "uv", type |-> "Scatter", points |-> << ScatterPoint(1) >>] >> }

\* the two axes with duplicated categories allowed or not
AxesAllowingDuplicates(allow) ==
  [ xAxis |-> [BaseChildren.xAxis EXCEPT !.allowDuplicatedCategory = allow],
    yAxis |-> [BaseChildren.yAxis EXCEPT !.allowDuplicatedCategory = allow] ]

DefaultTooltipInputs ==
  { Merge(ChartProps(SyncProfiles[1], ChartProfiles[chart], Sizes[size]),
          Merge(AxesAllowingDuplicates(allow),
                Merge([graphicalItems |-> items, brush |-> brush], tooltip))) :
      chart \in 1..Len(ChartProfiles), size \in 1..2, allow \in BOOLEAN,
      items \in DefaultTooltipSeries,
      brush \in { [height |-> 1], [height |-> 1, startIndex |-> 1] },
      tooltip \in {EmptyObject} \cup { [tooltip |-> t] : t \in TooltipElements } }

DefaultTooltipInit ==
  /\ \E p \in DefaultTooltipInputs : props = [i \in Charts |-> p]
  /\ state = [i \in Charts |-> EmptyObject]
  /\ listeners = << >>
  /\ bus = NoEmit
  /\ obs = Called("none", 0, Null)
  /\ throttle = [i \in Charts |-> NoTimer]

DefaultTooltipNext == \E i \in Charts : Mount(i)

DefaultTooltipSpec == DefaultTooltipInit /\ [][DefaultTooltipNext]_vars

(***************************************************************************)
(* Re-rendering with new props: the parent changes the data, the size, the *)
(* layout, the margin, the chart's dataKey, the stack offset or the        *)
(* children of a mounted chart.  The charts have no sync id and so do not  *)
(* interact; one chart is followed from its mount on.                      *)
(***************************************************************************)
\* getDerivedStateFromProps with the next props, then componentDidUpdate,
\* which shows the default tooltip again when the Tooltip element changed
Rerender(i, nextProps) ==
  /\ Idle
  /\ isMounted(i)
  /\ state[i].updateId < MaxUpdateId
  /\ nextProps # props[i]
  /\ LET derived == Merge(state[i], getDerivedStateFromProps(nextProps, props[i], state[i]))
         tooltipChanged ==
           ~ isChildrenEqual([k \in (DOMAIN props[i]) \cap {"tooltip"} |-> props[i][k]],
                             [k \in (DOMAIN nextProps) \cap {"tooltip"} |-> nextProps[k]])
         shown == IF tooltipChanged THEN displayDefaultTooltip(derived, nextProps)
                  ELSE [thrown |-> Null, nextState |-> EmptyObject]
     IN /\ state' = [state EXCEPT ![i] = Merge(derived, shown.nextState)]
        /\ obs' = Called("render", i, shown.thrown)
  /\ props' = [props EXCEPT ![i] = nextProps]
  /\ bus' = NoEmit
  /\ UNCHANGED <<listeners, throttle>>

UpdateBase ==
  Merge(ChartProps(SyncProfiles[1], ChartProfiles[1], ValidSize), [stackOffset |-> "none"])

WithoutKey(p, key) == [k \in (DOMAIN p) \ {key} |-> p[k]]

\* the props the parent renders the chart with: the base, the base with one
\* prop or one child changed, and charts without a data prop
UpdateInputs ==
  { UpdateBase,
    Merge(UpdateBase, [data |-> DataB]),
    Merge(UpdateBase, [data |-> << >>, dataNil |-> TRUE]),
    Merge(UpdateBase, [width |-> 0]),
    Merge(UpdateBase, [height |-> NaN]),
    Merge(UpdateBase, [layout |-> "vertical"]),
    Merge(UpdateBase, [margin |-> MarginWide]),
    Merge(UpdateBase, [dataKey |-> "uv"]),
    Merge(UpdateBase, [stackOffset |-> "expand"]),
    Merge(UpdateBase, [brush |-> [height |-> 1, startIndex |-> 1]]),
    Merge(UpdateBase, [brush |-> [height |-> 1, endIndex |-> 1]]),
    WithoutKey(UpdateBase, "brush"),
    Merge(UpdateBase, [graphicalItems |-> << [dataKey |-> "uv"], [dataKey |-> "name"] >>]),
    Merge(UpdateBase, [tooltip |-> [trigger |-> "hover",
                                    defaultIndex |-> IndexValue("number", 1)]]),
    Merge(UpdateBase, [data |-> << >>, dataNil |-> TRUE,
                       graphicalItems |-> << [dataKey |-> "uv"], [dataKey |-> "name"] >>]) }

\* the props the chart is mounted with: a valid and a degenerate size
UpdateMountInputs == { UpdateBase, Merge(UpdateBase, [width |-> 0]) }

UpdateInit ==
  /\ \E p \in UpdateMountInputs : props = [i \in Charts |-> p]
  /\ state = [i \in Charts |-> EmptyObject]
  /\ listeners = << >>
  /\ bus = NoEmit
  /\ obs = Called("none", 0, Null)
  /\ throttle = [i \in Charts |-> NoTimer]

\* no chart but i is mounted
Alone(i) == \A j \in Charts \ {i} : ~ isMounted(j)

UpdateNext ==
  \/ \E i \in Charts : Alone(i) /\ Mount(i)
  \/ \E i \in Charts, p \in UpdateInputs : Alone(i) /\ Rerender(i, p)
  \/ \E i \in Charts, w \in BrushWindows : Alone(i) /\ handleBrushChange(i, w.startIndex, w.endIndex)
  \/ \E i \in Charts, e \in PointerEvents : Alone(i) /\ triggeredAfterMouseMove(i, e)

UpdateSpec == UpdateInit /\ [][UpdateNext]_vars

(***************************************************************************)
(* Instances without offset: charts that share the sync id s1 under the    *)
(* index, value and custom policies, each mounted with a valid or with a   *)
(* degenerate size; the pointer moves over and leaves the charts that are  *)
(* rendered.                                                               *)
(***************************************************************************)
NoOffsetKindCount == 3 * Len(Sizes)
NoOffsetKind(k) ==
  ChartProps(SyncProfiles[2 + ((k - 1) \div Len(Sizes))], ChartProfiles[1],
             Sizes[((k - 1) % Len(Sizes)) + 1])

NoOffsetInit ==
  /\ \E kind \in [Charts -> 1..NoOffsetKindCount] :
       /\ Nondecreasing(kind)
       /\ props = [i \in Charts |-> NoOffsetKind(kind[i])]
  /\ state = [i \in Charts |-> EmptyObject]
  /\ listeners = << >>
  /\ bus = NoEmit
  /\ obs = Called("none", 0, Null)
  /\ throttle = [i \in Charts |-> NoTimer]

NoOffsetNext ==
  \/ \E i \in Charts : Mount(i)
  \/ \E i \in Charts, e \in PointerEvents : triggeredAfterMouseMove(i, e)
  \/ \E i \in Charts : handleMouseLeave(i)
  \/ Deliver

NoOffsetSpec == NoOffsetInit /\ [][NoOffsetNext]_vars

(***************************************************************************)
(* Properties.                                                             *)
(***************************************************************************)
\* the instance the eventCenter calls in the next step of the emit in progress
Receiver == Head(bus.pending)
Message == bus.msg[1]

\* the emit of the last handler has been delivered to every listener
Delivered == Idle /\ bus.msg # Null

IsTooltipMessage(data) ==
  /\ "activeTooltipIndex" \in DOMAIN data
  /\ "dataStartIndex" \notin DOMAIN data
  /\ "dataEndIndex" \notin DOMAIN data

DerivedKeys ==
  {"formattedGraphicalItems", "graphicalItems", "offset", "tooltipTicks", "tooltipAxis"}
DerivedOf(st) == [k \in (DOMAIN st) \cap DerivedKeys |-> st[k]]

\* the scaled pointer position lies outside the plot rectangle of chart i
PointerOutside(i, e) ==
  LET offset == state[i].offset
      x == e.chartX * e.invScale
      y == e.chartY * e.invScale
  IN \/ x < offset.left \/ x > offset.left + offset.width
     \/ y < offset.top \/ y > offset.top + offset.height

InsidePlot(point, offset) ==
  /\ offset.left <= point.x /\ point.x <= offset.left + offset.width
  /\ offset.top <= point.y /\ point.y <= offset.top + offset.height

\* C1: an instance does not react to its own broadcast: when the listener
\* called is the emitter of the message and its syncMethod is not a function,
\* the call leaves its state unchanged and applies nothing; a self-originated
\* message is applied only by an instance whose syncMethod is a function.
C1_OwnBroadcastIgnored ==
  [][ (~ Idle /\ Receiver = Message.emitter) =>
        /\ props[Receiver].syncMethod # "function" =>
             /\ state'[Receiver] = state[Receiver]
             /\ obs'.applied[Receiver] = obs.applied[Receiver]
        /\ obs'.applied[Receiver] > obs.applied[Receiver] =>
             props[Receiver].syncMethod = "function" ]_vars

\* C1 witness: an emit by an instance with the index or value policy has been
\* delivered to all listeners, the emitter among them; a peer applied it and
\* the emitter did not.
C1_Witness ==
  /\ Delivered
  /\ isMounted(Message.emitter)
  /\ props[Message.emitter].syncMethod # "function"
  /\ obs.applied[Message.emitter] = 0
  /\ \E b \in Charts : obs.applied[b] = 1

InteractionOps ==
  {"handleMouseEnter", "triggeredAfterMouseMove", "handleMouseLeave", "handleClick",
   "handleBrushChange"}

\* this step is the call of a user-interaction handler on a chart with a sync id
InteractionWithSyncId ==
  /\ Idle
  /\ obs'.op \in InteractionOps
  /\ props[obs'.actor].syncId # Undefined

\* C2 as stated: every user interaction (hover, click, leave, brush change) on
\* an instance that has a sync id causes exactly one broadcast.
C2_ExactlyOneBroadcast ==
  [][ InteractionWithSyncId => obs'.emits = 1 ]_vars

\* the interaction of this step takes effect: the pointer resolves (enter,
\* click), the window differs (brush change); a delivered move and a leave
\* always do
TakesEffect ==
  LET i == obs'.actor
      input == obs'.input
  IN CASE obs'.op \in {"handleMouseEnter", "handleClick"} ->
            getMouseInfo(i, input[1]) # Null
       [] obs'.op = "handleBrushChange" ->
            \/ input[1].startIndex # state[i].dataStartIndex
            \/ input[1].endIndex # state[i].dataEndIndex
       [] OTHER -> TRUE

\* C2 (amended): sync feedback is impossible.  One user interaction on an
\* instance with a sync id causes at most one broadcast: exactly one when it
\* takes effect and none when the handler ignores it; during the dispatch the
\* message stays the same, no further message is emitted, every call of the
\* eventCenter removes one listener from those still to be called (so the
\* dispatch ends after as many calls as there are listeners), and each
\* instance applies the message at most once.
C2_NoSyncFeedback ==
  /\ [](/\ obs.emits <= 1
        /\ \A j \in Charts : obs.applied[j] <= 1
        /\ ~ Idle => bus.msg # Null)
  /\ [][ /\ InteractionWithSyncId => obs'.emits = (IF TakesEffect THEN 1 ELSE 0)
         /\ ~ Idle => /\ obs'.emits = obs.emits
                      /\ bus'.msg = bus.msg
                      /\ Len(bus'.pending) = Len(bus.pending) - 1 ]_vars

\* C2 witness: a broadcast was delivered to two listeners with different sync
\* policies, one of them a custom function, and both applied it once.
C2_Witness ==
  /\ Delivered
  /\ obs.emits = 1
  /\ \E a, b \in Charts :
       /\ props[a].syncMethod = "function" /\ props[b].syncMethod # "function"
       /\ obs.applied[a] = 1 /\ obs.applied[b] = 1

\* C3 as stated: after a hover on one of two instances that share a sync id and
\* both use the index policy, both have the same activeTooltipIndex.
C3_SameIndexAfterHover ==
  (Delivered /\ IsTooltipMessage(Message.data)) =>
    \A b \in Charts :
      ( /\ isMounted(b) /\ b # Message.emitter
        /\ props[b].syncId = Message.cId
        /\ props[b].syncMethod = "index"
        /\ props[Message.emitter].syncMethod = "index" ) =>
      state[b].activeTooltipIndex = state[Message.emitter].activeTooltipIndex

\* C3 (amended): the same, for a receiver whose state holds an offset; a
\* receiver without an offset ignores the message.
C3_SameIndexAfterHoverWithOffset ==
  (Delivered /\ IsTooltipMessage(Message.data)) =>
    \A b \in Charts :
      ( /\ isMounted(b) /\ b # Message.emitter
        /\ props[b].syncId = Message.cId
        /\ props[b].syncMethod = "index"
        /\ props[Message.emitter].syncMethod = "index"
        /\ "offset" \in DOMAIN state[b] ) =>
      /\ state[b].activeTooltipIndex = state[Message.emitter].activeTooltipIndex
      /\ state[b].activeTooltipIndex = Message.data.activeTooltipIndex

\* C3 witness: a hover that resolved to the last index of the longer dataset
\* has been applied by an index-policy peer with the shorter dataset.
C3_Witness ==
  /\ Delivered
  /\ IsTooltipMessage(Message.data)
  /\ Message.data.activeTooltipIndex = 2
  /\ \E b \in Charts :
       /\ b # Message.emitter
       /\ obs.applied[b] = 1
       /\ props[b].data # props[Message.emitter].data
       /\ state[b].activeTooltipIndex = 2

\* C4 as stated: after a brush change that was broadcast, every other mounted
\* instance with the same sync id has the broadcast window and the derived
\* state computed from that window; the emitter applied its own message only
\* if its syncMethod is a function.
C4_WindowAndDerivedStateFollow ==
  (Delivered /\ obs.op = "handleBrushChange") =>
    \A b \in Charts :
      (isMounted(b) /\ props[b].syncId = Message.cId) =>
        IF b = Message.emitter
        THEN obs.applied[b] = (IF props[b].syncMethod = "function" THEN 1 ELSE 0)
        ELSE /\ state[b].dataStartIndex = Message.data.dataStartIndex
             /\ state[b].dataEndIndex = Message.data.dataEndIndex
             /\ DerivedOf(state[b]) =
                  updateStateOfAxisMapsOffsetAndStackGroups(
                    props[b], Message.data.dataStartIndex, Message.data.dataEndIndex,
                    state[b].updateId, state[b])

\* C5: a receiver with the value policy that applies a tooltip message gets as
\* activeTooltipIndex the smallest index of its own tooltip ticks whose value
\* is the broadcast activeLabel, and -1 when no tick has that value.
C5_ValuePolicyFirstMatch ==
  [][ ( /\ ~ Idle
        /\ IsTooltipMessage(Message.data)
        /\ receivesSyncEvent(Receiver, Message.cId, Message.emitter)
        /\ props[Receiver].syncMethod = "value"
        /\ "offset" \in DOMAIN state[Receiver] ) =>
      LET ticks == state[Receiver].tooltipTicks
          label == Message.data.activeLabel
          index == state'[Receiver].activeTooltipIndex
      IN IF \E k \in 1..Len(ticks) : ticks[k].value = label
         THEN /\ index >= 0 /\ index < Len(ticks)
              /\ ticks[index + 1].value = label
              /\ \A k \in 1..index : ticks[k].value # label
         ELSE index = 0 - 1 ]_vars

\* C5 witness: a value-policy receiver applied a tooltip message and found the
\* label at an index of its own that differs from the broadcast index.
C5_Witness ==
  /\ Delivered
  /\ IsTooltipMessage(Message.data)
  /\ \E b \in Charts :
       /\ b # Message.emitter
       /\ props[b].syncMethod = "value"
       /\ obs.applied[b] = 1
       /\ state[b].activeTooltipIndex >= 0
       /\ state[b].activeTooltipIndex # Message.data.activeTooltipIndex
       /\ state[b].activeLabel = Message.data.activeLabel

\* C6 as stated: a receiver that applied a tooltip message and resolved a tick
\* has its activeCoordinate inside its own plot rectangle, with its own tick
\* coordinate along the tooltip axis.
C6_CoordinateInsideOwnPlot ==
  (Delivered /\ IsTooltipMessage(Message.data)) =>
    \A b \in Charts :
      ( /\ obs.applied[b] = 1
        /\ "offset" \in DOMAIN state[b]
        /\ At(state[b].tooltipTicks, state[b].activeTooltipIndex) # Null ) =>
      LET tick == At(state[b].tooltipTicks, state[b].activeTooltipIndex)[1]
      IN /\ InsidePlot(state[b].activeCoordinate, state[b].offset)
         /\ IF props[b].layout = "horizontal"
            THEN state[b].activeCoordinate.x = tick.coordinate
            ELSE state[b].activeCoordinate.y = tick.coordinate

\* C7: sync messages pass only between instances with the same sync id: a
\* listener whose syncId differs from the sync id of the message keeps its
\* whole state and applies nothing; an instance without a syncId emits
\* nothing, and every message carries the sync id of its emitter.
C7_OnlyWithinSyncId ==
  /\ [](bus.msg # Null =>
          /\ props[Message.emitter].syncId # Undefined
          /\ Message.cId = props[Message.emitter].syncId)
  /\ [][ /\ (~ Idle /\ props[Receiver].syncId # Message.cId) =>
              /\ state'[Receiver] = state[Receiver]
              /\ obs'.applied[Receiver] = obs.applied[Receiver]
         /\ ( /\ Idle /\ obs'.op \in InteractionOps
              /\ props[obs'.actor].syncId = Undefined ) =>
              (obs'.emits = 0 /\ bus'.msg = Null /\ Idle') ]_vars

\* C7 witness: a message was delivered to a listener that has another sync id.
C7_Witness ==
  /\ Delivered
  /\ \E b \in Charts :
       /\ isMounted(b)
       /\ props[b].syncId # Undefined
       /\ props[b].syncId # Message.cId
       /\ obs.applied[b] = 0

\* C8 as stated: in every reachable state of a mounted instance,
\* activeTooltipIndex is -1 or an index of the displayed data.
C8_ActiveIndexWithinDisplayedData ==
  \A i \in Charts :
    isMounted(i) =>
      \/ state[i].activeTooltipIndex = 0 - 1
      \/ /\ state[i].activeTooltipIndex >= 0
         /\ state[i].activeTooltipIndex <
              Len(getDisplayedData(props[i].data, props[i].graphicalItems, state[i].dataStartIndex,
                                   state[i].dataEndIndex))

\* this step is the call of a pointer handler with a pointer outside the plot
OutsidePointerCall ==
  /\ Idle
  /\ obs'.op \in {"handleMouseEnter", "triggeredAfterMouseMove", "handleClick"}
  /\ PointerOutside(obs'.actor, obs'.input[1])

\* C9 as stated: a pointer outside the plot rectangle (after the division by
\* the scale) yields no tooltip data and an inactive tooltip state, whichever
\* pointer handler receives it.
C9_OutsideMeansInactive ==
  [][ OutsidePointerCall =>
        /\ getMouseInfo(obs'.actor, obs'.input[1]) = Null
        /\ ~ state'[obs'.actor].isTooltipActive ]_vars

\* C9 (amended): a pointer outside the plot rectangle yields no tooltip data;
\* a delivered pointer move then makes the tooltip inactive and broadcasts
\* that, while mouse-enter and click ignore the event: they leave the state
\* as it was (active, if it was active) and emit nothing.
C9_OutsideYieldsNoTooltipData ==
  [][ OutsidePointerCall =>
        LET i == obs'.actor
        IN /\ getMouseInfo(i, obs'.input[1]) = Null
           /\ obs'.op = "triggeredAfterMouseMove" =>
                /\ ~ state'[i].isTooltipActive
                /\ props[i].syncId # Undefined =>
                     (bus'.msg # Null /\ DOMAIN bus'.msg[1].data = {"isTooltipActive"})
           /\ obs'.op # "triggeredAfterMouseMove" =>
                (state'[i] = state[i] /\ obs'.emits = 0) ]_vars

\* C9 witness: a pointer move outside the plot was delivered to a chart whose
\* tooltip had resolved an index before; the tooltip is inactive now.
C9_Witness ==
  /\ obs.op = "triggeredAfterMouseMove"
  /\ bus.msg # Null
  /\ DOMAIN Message.data = {"isTooltipActive"}
  /\ ~ state[Message.emitter].isTooltipActive
  /\ state[Message.emitter].activeTooltipIndex >= 0

\* C10 as stated: while the width or height of a mounted chart is degenerate
\* its state holds no offset and no geometry, and while it is valid the state
\* holds an offset.
C10_NoOffsetWhileDegenerate ==
  \A i \in Charts :
    isMounted(i) =>
      IF validateWidthHeight(props[i])
      THEN "offset" \in DOMAIN state[i]
      ELSE DerivedOf(state[i]) = EmptyObject

\* this step is a call of the throttled function by chart i (pointer or touch move)
ThrottledCallBy(i) == Idle /\ obs'.op = "handleMouseMove" /\ obs'.actor = i

\* this step is the timer of the throttle of chart i firing
TimerFiredFor(i) == Idle /\ obs'.op = "timerExpired" /\ obs'.actor = i

\* C11: pending rate-limited pointer work is cancelled on mouse-leave and on
\* unmount.  After handleMouseLeave the throttle of the instance holds no
\* timer and no event and its tooltip is inactive; an unmounted instance holds
\* no timer and no event, changes no state and emits nothing.  A timer is
\* started and an event is kept only by a pointer move received in that step,
\* and the trailing edge delivers only the event kept, so a move received
\* before the leave or the unmount is never delivered afterwards.
C11_PendingMoveCancelled ==
  /\ [](/\ \A i \in Charts : ~ isMounted(i) => throttle[i] = NoTimer
        /\ obs.op = "handleMouseLeave" =>
             /\ throttle[obs.actor] = NoTimer
             /\ ~ state[obs.actor].isTooltipActive)
  /\ [][ \A i \in Charts :
           /\ ( \/ (~ throttle[i].timer /\ throttle'[i].timer)
                \/ (throttle'[i].lastArgs # Null /\ throttle'[i].lastArgs # throttle[i].lastArgs) ) =>
                ThrottledCallBy(i)
           /\ (TimerFiredFor(i) /\ obs'.input # Null) =>
                (throttle[i].timer /\ throttle[i].lastArgs = obs'.input)
           /\ (~ isMounted(i) /\ ~ isMounted(i)') =>
                /\ state'[i] = state[i]
                /\ ~ (obs' # obs /\ obs'.actor = i) ]_vars

\* C11 witness: a mouse-leave dropped a pointer move that was waiting for the
\* trailing edge; nothing is pending and the tooltip is inactive.
C11_Witness ==
  /\ Idle
  /\ obs.op = "handleMouseLeave"
  /\ obs.input # Null
  /\ throttle[obs.actor] = NoTimer
  /\ ~ state[obs.actor].isTooltipActive

\* a pointer move waits for the trailing edge of the throttle of chart i
HasPending(i) == throttle[i].lastArgs # Null

\* C12: pointer moves are rate-limited with trailing-edge delivery of the
\* latest event.  A move that finds no timer running is the leading
\* invocation and starts the timer; a move that arrives while the timer runs
\* invokes nothing and replaces the event kept (earlier ones are dropped); the
\* timer invokes triggeredAfterMouseMove at most once, with the event kept;
\* the event kept leaves the throttle only by that delivery or by the cancel
\* of a mouse-leave or unmount; and whenever an event is kept, the throttle
\* eventually holds none (the latest one was delivered, if no cancel occurred).
C12_TrailingEdgeDeliversLatest ==
  /\ [][ \A i \in Charts :
           /\ ThrottledCallBy(i) =>
                IF ~ throttle[i].timer
                THEN /\ throttle'[i] = [timer |-> TRUE, lastArgs |-> Null]
                     /\ state'[i] = Merge(state[i], nextStateAfterMouseMove(i, obs'.input[1]))
                ELSE /\ throttle'[i] = [timer |-> TRUE, lastArgs |-> obs'.input]
                     /\ state'[i] = state[i]
                     /\ obs'.emits = 0
           /\ TimerFiredFor(i) =>
                /\ throttle[i].timer
                /\ obs'.input = throttle[i].lastArgs
                /\ throttle'[i].lastArgs = Null
                /\ obs'.input = Null => (state'[i] = state[i] /\ obs'.emits = 0)
                /\ obs'.input # Null =>
                     state'[i] = Merge(state[i], nextStateAfterMouseMove(i, obs'.input[1]))
           /\ (throttle[i].lastArgs # Null /\ throttle'[i].lastArgs = Null) =>
                \/ TimerFiredFor(i)
                \/ (obs'.op \in {"handleMouseLeave", "componentWillUnmount"} /\ obs'.actor = i) ]_vars
  /\ \A i \in Charts : HasPending(i) ~> ~ HasPending(i)

\* C12 witness: the timer delivered a pointer move that had been kept for the
\* trailing edge, and the tooltip shows the tick that move resolves to.
C12_Witness ==
  /\ Idle
  /\ obs.op = "timerExpired"
  /\ obs.input # Null
  /\ state[obs.actor].isTooltipActive
  /\ state[obs.actor].chartX = obs.input[1].chartX
  /\ state[obs.actor].chartY = obs.input[1].chartY

\* the brush window held in the state of a mounted chart
WindowOf(st) == << st.dataStartIndex, st.dataEndIndex >>

\* C13 as stated: the brush window of an instance changes only in a
\* handleBrushChange of that instance or when it applies a sync message that
\* carries a window; pointer handlers, tooltip messages and changes of width
\* or height leave it unchanged.
C13_WindowChangedOnlyByWindowing ==
  [][ \A i \in Charts :
        ( /\ isMounted(i) /\ isMounted(i)'
          /\ WindowOf(state'[i]) # WindowOf(state[i]) ) =>
        \/ (Idle /\ obs'.op = "handleBrushChange" /\ obs'.actor = i)
        \/ ( /\ ~ Idle /\ Receiver = i
             /\ ("dataStartIndex" \in DOMAIN Message.data \/ "dataEndIndex" \in DOMAIN Message.data) ) ]_vars

\* C14 as stated: the derived bundle in the state of a mounted instance
\* belongs to the window stored in the same state: the tooltip ticks it holds
\* are the ticks of the displayed data of that window.
C14_BundleMatchesWindow ==
  \A i \in Charts :
    (isMounted(i) /\ "tooltipTicks" \in DOMAIN state[i]) =>
      LET displayedData == getDisplayedData(props[i].data, props[i].graphicalItems, state[i].dataStartIndex,
                                            state[i].dataEndIndex)
          values == CategoryTickValues(state[i].tooltipAxis, displayedData)
      IN /\ Len(state[i].tooltipTicks) = Len(values)
         /\ \A k \in 1..Len(values) : state[i].tooltipTicks[k].value = values[k]

\* C15: every offset calculateOffset produced has width
\* max(0, chart width - left - right) and height
\* max(0, chart height - top - bottom), and neither is negative, whatever the
\* margins, the axis sizes, the brush and the legend box.
C15_OffsetSizeClamped ==
  \A i \in Charts :
    "offset" \in DOMAIN state[i] =>
      LET offset == state[i].offset
          rawWidth == props[i].width - offset.left - offset.right
          rawHeight == props[i].height - offset.top - offset.bottom
      IN /\ offset.width = (IF rawWidth > 0 THEN rawWidth ELSE 0)
         /\ offset.height = (IF rawHeight > 0 THEN rawHeight ELSE 0)
         /\ offset.width >= 0 /\ offset.height >= 0

\* an offset computed with the measured legend box whose sides leave less than
\* no room: width and height are both clamped
C15_Witness ==
  \E i \in Charts :
    /\ obs.op = "calculateOffset" /\ obs.input # Null /\ obs.actor = i
    /\ props[i].width - state[i].offset.left - state[i].offset.right < 0
    /\ props[i].height - state[i].offset.top - state[i].offset.bottom < 0
    /\ state[i].offset.width = 0 /\ state[i].offset.height = 0

\* the axis map getAxisMap stored for an axis type
AxisMapOf(st, axisType) == IF axisType = "xAxis" THEN st.xAxisMap ELSE st.yAxisMap
AxisMapsComputed(i) == "stackGroups" \in DOMAIN state[i]
DisplayedOf(i) ==
  getDisplayedData(props[i].data, props[i].graphicalItems, state[i].dataStartIndex, state[i].dataEndIndex)
DisplayedValues(i, key) == [k \in 1..Len(DisplayedOf(i)) |-> DisplayedOf(i)[k][key]]

\* C16 as stated: the resolved domain of a category axis that does not allow
\* duplicated categories holds no value twice, with or without a domain of
\* the axis element's own.
C16_CategoryDomainUnique ==
  \A i \in Charts : \A axisType \in {"xAxis", "yAxis"} :
    ( /\ AxisMapsComputed(i)
      /\ axisType \in DOMAIN props[i]
      /\ props[i][axisType].type = "category"
      /\ ~ props[i][axisType].allowDuplicatedCategory ) =>
    ~ hasDuplicate(AxisMapOf(state[i], axisType).domain)

\* the position at which a value shows first in a list
FirstIndex(arr, v) == MinOf({ k \in DOMAIN arr : arr[k] = v })

\* the domain lists every value of the list once, in the order in which the
\* values show first
IsFirstOccurrenceList(domain, values) ==
  /\ ~ hasDuplicate(domain)
  /\ Values(domain) = Values(values)
  /\ \A j, k \in DOMAIN domain :
       j < k => FirstIndex(values, domain[j]) < FirstIndex(values, domain[k])

CategoricalAxisWithDataKey(i) ==
  /\ AxisMapsComputed(i)
  /\ props[i].xAxis.type = "category"
  /\ isCategoricalAxis(props[i].layout, "xAxis")
  /\ props[i].xAxis.dataKey # Null

\* what C17 says of the x axis of chart i
C17_DomainOfCategoryAxis(i) ==
  LET axis == props[i].xAxis
      values == DisplayedValues(i, axis.dataKey[1])
      axisMap == state[i].xAxisMap
  IN /\ ~ axis.allowDuplicatedCategory => IsFirstOccurrenceList(axisMap.domain, values)
     /\ (axis.allowDuplicatedCategory /\ hasDuplicate(values)) =>
          /\ axisMap.duplicateDomain = Some(values)
          /\ Len(axisMap.domain) = Len(values)
          /\ \A k \in DOMAIN values : axisMap.domain[k] = k - 1

ShownSeries(i) == { item \in Values(props[i].graphicalItems) : ~ item.hide }
ShownValues(i) == UNION { Values(DisplayedValues(i, item.dataKey)) : item \in ShownSeries(i) }

\* a declared number axis in the numeric position, without data key, without
\* a domain of its own, and no stacked series
ContinuousAxisNoStack(i) ==
  /\ AxisMapsComputed(i)
  /\ "yAxis" \in DOMAIN props[i]
  /\ props[i].yAxis.type = "number"
  /\ props[i].yAxis.dataKey = Null /\ props[i].yAxis.domain = Null
  /\ ~ state[i].stackGroups.hasStack

StackedNone(i) ==
  /\ AxisMapsComputed(i)
  /\ state[i].stackGroups.hasStack
  /\ props[i].stackOffset = "none"
NumericAxisIsNumber(i) == "yAxis" \in DOMAIN props[i] => props[i].yAxis.type = "number"

\* the extents of the members: the first member starts at 0, every other
\* member starts where the member before it ends, and a member's extent is
\* as long as its own value
C19_ExtentsAccumulate(i) ==
  LET group == state[i].stackGroups
  IN \A n \in DOMAIN group.items : \A j \in DOMAIN props[i].data :
       /\ group.stackedData[n][j][1] =
            (IF n = 1 THEN 0 ELSE group.stackedData[n - 1][j][2])
       /\ group.stackedData[n][j][2] - group.stackedData[n][j][1] =
            props[i].data[j][group.items[n].dataKey]

\* the bases and the tops of the members over the windowed records
WindowedExtents(i, end) ==
  { state[i].stackGroups.stackedData[n][j][end] :
      n \in DOMAIN state[i].stackGroups.items,
      j \in (state[i].dataStartIndex + 1)..(state[i].dataEndIndex + 1) }

C19_DomainCoversExtents(i) ==
  state[i].yAxisMap.domain = << MinOf(WindowedExtents(i, 1)), MaxOf(WindowedExtents(i, 2)) >>

C20_ExpandDomainIsUnit ==
  \A i \in Charts :
    ( /\ AxisMapsComputed(i)
      /\ state[i].stackGroups.hasStack
      /\ props[i].stackOffset = "expand"
      /\ NumericAxisIsNumber(i) ) =>
    state[i].yAxisMap.domain = << 0, 1 >>

\* series k of chart i refers to an axis id the axis map of the type lacks
MissingAxis(i, k, axisType) ==
  props[i].graphicalItems[k].axisId[axisType] \notin DOMAIN AxisMapById(props[i], axisType)
HasMissingAxis(i, types) ==
  \E k \in DOMAIN props[i].graphicalItems : \E axisType \in types : MissingAxis(i, k, axisType)
FormatCalledBy(i) == obs.op = "getFormatItems" /\ obs.actor = i
FailedLoudly(i) ==
  obs.input = Some("Invariant failed") /\ "formattedGraphicalItems" \notin DOMAIN state[i]

\* C21 as stated: when a series refers to an axis id the axis map of an axis
\* type of the chart has no entry for, getFormatItems fails with the
\* assertion and produces nothing, for every axis type of the chart.
C21_MissingAxisFailsLoudly ==
  \A i \in Charts :
    (FormatCalledBy(i) /\ HasMissingAxis(i, Values(props[i].axisComponents))) => FailedLoudly(i)

\* C21 amended: the assertion covers every axis type but zAxis; a series whose
\* only missing axis is a z axis is formatted, with no z axis.
C21_MissingAxisFailsLoudlyButZ ==
  \A i \in Charts :
    FormatCalledBy(i) =>
      LET types == Values(props[i].axisComponents)
      IN /\ HasMissingAxis(i, types \ {"zAxis"}) => FailedLoudly(i)
         /\ (HasMissingAxis(i, types) /\ ~ HasMissingAxis(i, types \ {"zAxis"})) =>
              /\ obs.input = Null
              /\ \E k \in DOMAIN state[i].formattedGraphicalItems :
                   state[i].formattedGraphicalItems[k].axes["zAxis"] = Null

\* a series on x axis 2 of a chart that declares the x axes 0 and 1: the call
\* failed
C21_Witness ==
  \E i \in Charts :
    /\ FormatCalledBy(i) /\ FailedLoudly(i)
    /\ \E k \in DOMAIN props[i].graphicalItems : MissingAxis(i, k, "xAxis")
    /\ ~ \E k \in DOMAIN props[i].graphicalItems : MissingAxis(i, k, "yAxis")

\* the continuous axes of a chart that take the default domain: the number
\* axis elements without a domain of their own and the implicit axes in the
\* numeric position
ContinuousAxisByDefault(i, axisType) ==
  IF axisType \in DOMAIN props[i]
  THEN props[i][axisType].type = "number" /\ props[i][axisType].domain = Null
  ELSE ~ isCategoricalAxis(props[i].layout, axisType)

\* the domain of the axis is read off the series' own values (not off a stack)
DomainFromSeriesValues(i, axisType) ==
  \/ ~ state[i].stackGroups.hasStack
  \/ axisType # getAxisNameByLayout(props[i].layout).numericAxisName
  \/ axisType \in DOMAIN props[i] /\ props[i][axisType].dataKey # Null

PipelineCalledBy(i) == "prevState" \in DOMAIN state[i]
legendBBoxOf(st) == IF "legendBBox" \in DOMAIN st THEN st.legendBBox ELSE Null

TooltipOps == {"handleMouseEnter", "triggeredAfterMouseMove", "handleClick", "handleMouseLeave"}

\* what a tooltip interaction has to leave alone
PipelineKeys ==
  DerivedKeys \cup {"updateId", "dataStartIndex", "dataEndIndex",
                    "xAxisMap", "yAxisMap", "stackGroups"}
PipelineStateOf(st) == [k \in (DOMAIN st) \cap PipelineKeys |-> st[k]]

\* C24: a pointer enter, move, click or leave, and the application of the
\* tooltip message it broadcast, leave the update id, the axis maps, the offset,
\* the stack groups, the tooltip ticks and the window of every instance as they
\* were
C24_TooltipLeavesPipelineState ==
  [][ obs'.op \in TooltipOps =>
        \A i \in Charts : PipelineStateOf(state'[i]) = PipelineStateOf(state[i]) ]_vars

\* a pointer handler activated the tooltip of its instance and another instance
\* applied the message
C24_Witness ==
  /\ obs.op \in TooltipOps
  /\ Delivered
  /\ IsTooltipMessage(Message.data)
  /\ state[obs.actor].isTooltipActive
  /\ \E b \in Charts :
       /\ b # obs.actor
       /\ obs.applied[b] = 1
       /\ state[b].isTooltipActive
       /\ state[b].activeTooltipIndex = Message.data.activeTooltipIndex

\* C25: the first pass computes the offset without the legend; a legend report
\* with a box stores the box and recomputes the offset with it in the same
\* state update, a report of null leaves the whole state as it was, and no
\* report changes the window or the update id
C25_LegendSecondInput ==
  [][ /\ obs'.op = "mount" =>
           LET i == obs'.actor
           IN /\ "legendBBox" \notin DOMAIN state'[i]
              /\ validateWidthHeight(props[i]) =>
                   state'[i].offset = calculateOffset(props[i], Null)
      /\ obs'.op = "handleLegendBBoxUpdate" =>
           LET i == obs'.actor
               box == obs'.input
           IN /\ box = Null => state' = state
              /\ box # Null =>
                   /\ state'[i].legendBBox = box
                   /\ state'[i].offset = calculateOffset(props[i], box)
              /\ WindowOf(state'[i]) = WindowOf(state[i])
              /\ state'[i].updateId = state[i].updateId
              /\ \A j \in Charts \ {i} : state'[j] = state[j] ]_vars

\* a legend on the right reported its box after a brush change: the offset of
\* the first pass plus the width of the box on the right, the window kept
C25_Witness ==
  \E i \in Charts :
    /\ obs.op = "handleLegendBBoxUpdate" /\ obs.actor = i /\ obs.input # Null
    /\ "legend" \in DOMAIN props[i] /\ props[i].legend.align = "right"
    /\ state[i].legendBBox = obs.input
    /\ state[i].offset.right = calculateOffset(props[i], Null).right + obs.input[1].width
    /\ WindowOf(state[i]) = << 0, 1 >>

\* what the brush element of a chart gives for an index: null when the chart
\* has no brush element, the element gives no such index, or the index is
\* negative
BrushIndexOf(p, key) ==
  IF "brush" \in DOMAIN p /\ key \in DOMAIN p.brush /\ p.brush[key] >= 0
  THEN Some(p.brush[key]) ELSE Null

\* C26: the default state has dataStartIndex 0 and dataEndIndex
\* data.length - 1 for a non-empty dataset (0 for an empty or missing one), each
\* replaced by the brush element's startIndex / endIndex when that is >= 0, and
\* activeTooltipIndex -1
C26_DefaultState ==
  \A i \in Charts :
    (obs.op = "createDefaultState" /\ "dataStartIndex" \in DOMAIN state[i]) =>
      LET p == props[i]
          start == BrushIndexOf(p, "startIndex")
          end == BrushIndexOf(p, "endIndex")
      IN /\ state[i].dataStartIndex = (IF start # Null THEN start[1] ELSE 0)
         /\ state[i].dataEndIndex =
              (IF end # Null THEN end[1]
               ELSE IF p.data = << >> THEN 0 ELSE Len(p.data) - 1)
         /\ state[i].activeTooltipIndex = 0 - 1

\* the default state of a chart with three records whose brush element gives
\* the start index 1 and a negative end index: the window is (1, 2)
C26_Witness ==
  \E i \in Charts :
    /\ obs.op = "createDefaultState" /\ obs.actor = i
    /\ Len(props[i].data) = 3
    /\ "brush" \in DOMAIN props[i]
    /\ DOMAIN props[i].brush = {"height", "startIndex", "endIndex"}
    /\ props[i].brush.startIndex = 1 /\ props[i].brush.endIndex < 0
    /\ WindowOf(state[i]) = << 1, 2 >>

\* the axes that take space: neither hidden nor mirrored
ShownAxesOn(axes, orientation) ==
  { k \in DOMAIN axes :
      ~ axes[k].hide /\ ~ axes[k].mirror /\ axes[k].orientation = orientation }

\* the sum of a size over a set of axes, taken one axis at a time
RECURSIVE SumOfSizes(_, _, _)
SumOfSizes(axes, set, size) ==
  IF set = {} THEN 0
  ELSE LET k == CHOOSE x \in set : TRUE
       IN axes[k][size] + SumOfSizes(axes, set \ {k}, size)

MarginOf(p, side) ==
  IF "margin" \in DOMAIN p /\ side \in DOMAIN p.margin THEN p.margin[side] ELSE 0

\* C27: the offset of the first pass has, on each side, the margin of that side
\* (0 when absent) plus the widths (y axes, left and right) or heights (x axes,
\* top and bottom) of the axes on that side that are neither hidden nor
\* mirrored; the brush's height is added to the bottom, and brushBottom is the
\* bottom without it (also after the legend was measured)
C27_OffsetSides ==
  \A i \in Charts :
    "offset" \in DOMAIN state[i] =>
      LET p == props[i]
          offset == state[i].offset
          space(axisType, side, size) ==
            MarginOf(p, side)
              + SumOfSizes(p[axisType], ShownAxesOn(p[axisType], side), size)
      IN /\ offset.brushBottom = space("xAxisMap", "bottom", "height")
         /\ "legendBBox" \notin DOMAIN state[i] =>
              /\ offset.left = space("yAxisMap", "left", "width")
              /\ offset.right = space("yAxisMap", "right", "width")
              /\ offset.top = space("xAxisMap", "top", "height")
              /\ offset.bottom = offset.brushBottom
                                   + (IF "brush" \in DOMAIN p THEN p.brush.height ELSE 0)

\* a chart without margin, with a brush, two shown y axes on the left and a
\* hidden x axis on the top: left is the sum of the two widths, top is 0
C27_Witness ==
  \E i \in Charts :
    /\ "offset" \in DOMAIN state[i] /\ "legendBBox" \notin DOMAIN state[i]
    /\ "margin" \notin DOMAIN props[i]
    /\ "brush" \in DOMAIN props[i]
    /\ Cardinality(ShownAxesOn(props[i].yAxisMap, "left")) = 2
    /\ \E k \in DOMAIN props[i].xAxisMap :
         props[i].xAxisMap[k].hide /\ props[i].xAxisMap[k].orientation = "top"
    /\ state[i].offset.left = 3
    /\ state[i].offset.top = 0
    /\ state[i].offset.bottom = state[i].offset.brushBottom + 1

\* the own data of series k, and the number of own records of the series
\* before series k + 1
OwnData(items, k) == IF "data" \in DOMAIN items[k] THEN items[k].data ELSE << >>
RECURSIVE OwnRecordsUpTo(_, _)
OwnRecordsUpTo(items, k) ==
  IF k = 0 THEN 0 ELSE OwnRecordsUpTo(items, k - 1) + Len(OwnData(items, k))

\* C28: getDisplayedData returns the own data of the series that carry a
\* non-empty list, one after the other in series order, when there is such a
\* series; otherwise the records dataStartIndex..dataEndIndex (both included)
\* of the dataset; and the empty list when the dataset is empty or an index is
\* not a number
C28_DisplayedData ==
  \A i \in Charts :
    "displayedData" \in DOMAIN state[i] =>
      LET items == props[i].graphicalItems
          data == props[i].data
          s == state[i].dataStartIndex
          e == state[i].dataEndIndex
          result == state[i].displayedData
      IN IF \E k \in DOMAIN items : OwnData(items, k) # << >>
         THEN /\ Len(result) = OwnRecordsUpTo(items, Len(items))
              /\ \A k \in DOMAIN items : \A j \in DOMAIN OwnData(items, k) :
                   result[OwnRecordsUpTo(items, k - 1) + j] = OwnData(items, k)[j]
         ELSE IF data = << >> \/ ~ isNumber(s) \/ ~ isNumber(e)
         THEN result = << >>
         ELSE /\ DOMAIN result = 1..((IF e + 1 < Len(data) THEN e + 1 ELSE Len(data)) - s)
              /\ \A n \in DOMAIN result : result[n] = data[s + n]

\* three series, the first and the third with own records: the one record of
\* the first, then the two of the third, whatever the dataset
C28_Witness ==
  \E i \in Charts :
    /\ "displayedData" \in DOMAIN state[i]
    /\ Len(props[i].graphicalItems) = 3
    /\ props[i].data # << >>
    /\ state[i].displayedData = SeriesDataB \o SeriesDataA

\* the records of series k the tooltip looks into: its own data or else the
\* dataset, cut to the window when the window is not (0, 0) and reaches the
\* index
SeriesRecords(i, k) ==
  LET child == props[i].graphicalItems[k]
      all == IF "data" \in DOMAIN child THEN child.data ELSE props[i].data
      s == state[i].dataStartIndex
      e == state[i].dataEndIndex
  IN IF s + e # 0 /\ e - s >= state[i].activeTooltipIndex
     THEN [n \in 1..((IF e + 1 < Len(all) THEN e + 1 ELSE Len(all)) - s) |-> all[s + n]]
     ELSE all

\* the datum of series k at the resolved index (null when it has none): by key,
\* the first record of the series whose category is the active label; by
\* position, the record of the series at the index or else the record of the
\* displayed data at the index
DatumOf(i, k) ==
  LET records == SeriesRecords(i, k)
      index == state[i].activeTooltipIndex
      axis == props[i].tooltipAxis
      displayed == DisplayedOf(i)
  IN IF "dataKey" \in DOMAIN axis /\ ~ axis.allowDuplicatedCategory
     THEN LET hits == { n \in DOMAIN records : records[n][axis.dataKey] = state[i].activeLabel }
          IN IF hits = {} THEN Null
             ELSE Some(records[CHOOSE n \in hits : \A m \in hits : n <= m])
     ELSE IF index < Len(records) THEN Some(records[index + 1])
     ELSE IF index < Len(displayed) THEN Some(displayed[index + 1])
     ELSE Null

AxisIdsOf(i, axisType) ==
  [k \in DOMAIN props[i].graphicalItems |-> props[i].graphicalItems[k].axisId[axisType]]
DistinctIdsBefore(ids, id) ==
  LET first == CHOOSE k \in DOMAIN ids : ids[k] = id /\ \A j \in 1..(k - 1) : ids[j] # id
  IN Cardinality({ ids[j] : j \in 1..(first - 1) })

\* C30: for a dimension without axis element, the axis map has one hidden axis
\* per distinct axis id the series reference; the axis of the k-th distinct id
\* (k from 0, in declaration order) has the orientation bottom / top (x) or
\* left / right (y) for k even / odd, so a series on an id seen before neither
\* creates an axis nor advances the alternation
C30_ImplicitAxesAlternate ==
  \A i \in Charts :
    "axisMaps" \in DOMAIN state[i] =>
      \A axisType \in {"xAxis", "yAxis"} :
        props[i].axes[axisType] = << >> =>
          LET ids == AxisIdsOf(i, axisType)
              map == state[i].axisMaps[axisType]
          IN /\ DOMAIN map = Values(ids)
             /\ \A id \in DOMAIN map :
                  /\ map[id].hide
                  /\ map[id].orientation =
                       Some(IF DistinctIdsBefore(ids, id) % 2 = 0
                            THEN (IF axisType = "xAxis" THEN "bottom" ELSE "left")
                            ELSE (IF axisType = "xAxis" THEN "top" ELSE "right"))

\* series on the x axis ids 1, 0, 1, 2 and no x axis element: the axes 1, 0, 2
\* are bottom, top, bottom
C30_Witness ==
  \E i \in Charts :
    /\ "axisMaps" \in DOMAIN state[i]
    /\ props[i].axes.xAxis = << >>
    /\ AxisIdsOf(i, "xAxis") = << 1, 0, 1, 2 >>
    /\ state[i].axisMaps.xAxis[1].orientation = Some("bottom")
    /\ state[i].axisMaps.xAxis[0].orientation = Some("top")
    /\ state[i].axisMaps.xAxis[2].orientation = Some("bottom")
    /\ state[i].axisMaps.xAxis[2].hide

\* the default index of chart i's Tooltip element when it is a number within
\* the chart's tooltip ticks (null otherwise)
DefaultIndexWithinTicks(i) ==
  LET p == props[i]
      ticks == Field(state[i], "tooltipTicks", << >>)
  IN IF /\ "tooltip" \in DOMAIN p
        /\ "defaultIndex" \in DOMAIN p.tooltip
        /\ p.tooltip.defaultIndex.typeof = "number"
        /\ isNumber(p.tooltip.defaultIndex.value)
        /\ p.tooltip.defaultIndex.value >= 0
        /\ p.tooltip.defaultIndex.value <= Len(ticks) - 1
     THEN Some(p.tooltip.defaultIndex.value)
     ELSE Null

\* what a pointer hover over tick k of chart i resolves to
HoverOverTick(i, k) ==
  LET tick == state[i].tooltipTicks[k + 1]
      offset == state[i].offset
      point == IF props[i].layout = "horizontal"
               THEN [x |-> tick.coordinate, y |-> offset.top]
               ELSE [x |-> offset.left, y |-> tick.coordinate]
  IN getTooltipData(state[i], props[i].data, props[i].layout, Some(point))

\* the state the first derivation gave chart i
DerivedAtMount(i) == getDerivedStateFromProps(props[i], props[i], EmptyObject)

\* chart i is active at tick k with the label of the tick
ActiveAtTick(i, k) ==
  /\ state[i].isTooltipActive
  /\ state[i].activeTooltipIndex = k
  /\ state[i].activeLabel = state[i].tooltipTicks[k + 1].value

ScatterOf(i) == findScatterPlotElement(Field(state[i], "formattedGraphicalItems", << >>))

C32_WindowWithinData ==
  \A i \in Charts :
    (isMounted(i) /\ Len(props[i].data) > 0) =>
      /\ isNumber(state[i].dataStartIndex)
      /\ isNumber(state[i].dataEndIndex)
      /\ 0 <= state[i].dataStartIndex
      /\ state[i].dataStartIndex <= state[i].dataEndIndex
      /\ state[i].dataEndIndex <= Len(props[i].data) - 1

\* the last handler is a mouse-leave of chart a, or a delivered pointer move
\* on chart a whose position is outside its plot area
LeftOrMovedOutside(a) ==
  /\ obs.actor = a
  /\ \/ obs.op = "handleMouseLeave"
     \/ obs.op = "triggeredAfterMouseMove" /\ PointerOutside(a, obs.input[1])

InactiveMessage == [isTooltipActive |-> FALSE]

\* the mounted instances other than a that share a's sync id
PeersOf(a) ==
  { b \in Charts \ {a} :
      isMounted(b) /\ props[a].syncId # Undefined /\ props[b].syncId = props[a].syncId }

\* C33: when the pointer leaves chart a, or a delivered pointer move on a is
\* outside its plot area, a is inactive and its broadcast (it broadcasts iff it
\* has a sync id) is the one message {isTooltipActive: false}; once the
\* message is delivered every other mounted instance with a's sync id is
\* inactive, and applying the message changes no other field of a receiver
\* (active index, window and derived state among them).
C33_InactiveReachesPeers ==
  /\ [](\A a \in Charts :
          LeftOrMovedOutside(a) =>
            /\ ~ state[a].isTooltipActive
            /\ obs.emits = (IF props[a].syncId # Undefined THEN 1 ELSE 0)
            /\ bus.msg # Null =>
                 /\ Message.data = InactiveMessage
                 /\ Message.emitter = a
                 /\ Message.cId = props[a].syncId
            /\ Idle => \A b \in PeersOf(a) :
                         ~ state[b].isTooltipActive /\ obs.applied[b] = 1)
  /\ [][ (~ Idle /\ Message.data = InactiveMessage) =>
           \A b \in Charts :
             /\ DOMAIN state'[b] = DOMAIN state[b] \cup
                                     (IF obs'.applied[b] > obs.applied[b]
                                      THEN {"isTooltipActive"} ELSE {})
             /\ \A k \in DOMAIN state[b] \ {"isTooltipActive"} : state'[b][k] = state[b][k] ]_vars

\* the pointer left a chart and the message was delivered: a peer with the
\* same sync id that had been hovering at an index applied it, is inactive
\* and still holds the index
C33_Witness ==
  /\ Delivered
  /\ obs.op = "handleMouseLeave"
  /\ \E b \in PeersOf(obs.actor) :
       /\ obs.applied[b] = 1
       /\ ~ state[b].isTooltipActive
       /\ state[b].activeTooltipIndex >= 0
       /\ "activePayload" \in DOMAIN state[b]

\* prop key differs between two props records (absent on one side, or another value)
PropDiffers(prevProps, nextProps, key) ==
  \/ (key \in DOMAIN prevProps) # (key \in DOMAIN nextProps)
  \/ key \in DOMAIN prevProps /\ prevProps[key] # nextProps[key]

\* the props whose change makes a new generation
GenerationProps == {"dataKey", "data", "dataNil", "width", "height", "layout", "stackOffset", "margin"}

GenerationPropsDiffer(prevProps, nextProps) ==
  \E key \in GenerationProps : PropDiffers(prevProps, nextProps, key)

\* this step is a re-render of chart i by its parent
RenderedStep(i) == obs'.op \in {"render", "resize"} /\ obs'.actor = i

\* the generation grows by 1 and the pointer position is kept
NewGenerationKeepsPointer(i) ==
  /\ state'[i].updateId = state[i].updateId + 1
  /\ state'[i].chartX = state[i].chartX
  /\ state'[i].chartY = state[i].chartY

\* updateId is 0 after the first derivation and no step decreases it
UpdateIdFromZeroUp(i) ==
  /\ (obs'.op = "mount" /\ obs'.actor = i) => state'[i].updateId = 0
  /\ ("updateId" \in DOMAIN state[i] /\ "updateId" \in DOMAIN state'[i]) =>
       state'[i].updateId >= state[i].updateId

BrushChangeStep(i, w) ==
  /\ obs'.op = "handleBrushChange" /\ obs'.actor = i /\ obs'.input = Some(w)
  /\ Idle

\* C35: handleBrushChange with the window the state holds changes no state
\* and emits nothing; with another window it sets the window and the derived
\* state of that window, emits one message (none without a sync id) whose
\* data is exactly {dataStartIndex, dataEndIndex}, and leaves updateId and
\* every other instance unchanged.
C35_BrushChangeOnlyOnDifference ==
  [][ \A i \in Charts : \A w \in BrushWindows :
        BrushChangeStep(i, w) =>
          IF w.startIndex = state[i].dataStartIndex /\ w.endIndex = state[i].dataEndIndex
          THEN /\ state' = state
               /\ obs'.emits = 0
               /\ bus'.msg = Null
          ELSE /\ WindowOf(state'[i]) = << w.startIndex, w.endIndex >>
               /\ DerivedOf(state'[i]) =
                    DerivedOf(updateStateOfAxisMapsOffsetAndStackGroups(
                                props[i], w.startIndex, w.endIndex, state[i].updateId, state[i]))
               /\ state'[i].updateId = state[i].updateId
               /\ \A j \in Charts \ {i} : state'[j] = state[j]
               /\ obs'.emits = (IF props[i].syncId # Undefined THEN 1 ELSE 0)
               /\ props[i].syncId # Undefined =>
                    /\ Len(bus'.msg) = 1
                    /\ bus'.msg[1].data =
                         [dataStartIndex |-> w.startIndex, dataEndIndex |-> w.endIndex] ]_vars

\* the brush of a chart with a sync id moved to a window other than the one
\* of the mount: the state holds the window and its two ticks, one message
\* went out, the update id is still 0
C35_Witness ==
  \E i \in Charts :
    /\ obs.op = "handleBrushChange" /\ obs.actor = i
    /\ obs.emits = 1
    /\ Len(props[i].data) = 3
    /\ WindowOf(state[i]) = << 0, 1 >>
    /\ Len(state[i].tooltipTicks) = 2
    /\ state[i].updateId = 0
    /\ Message.data = [dataStartIndex |-> 0, dataEndIndex |-> 1]

\* the listeners registered on the sync channel, as a set
Registered == { listeners[k] : k \in 1..Len(listeners) }

\* C36: an instance reacts to sync messages only between mount and unmount.
\* componentWillUnmount removes its handler, and only its handler, from the
\* channel; the listeners a dispatch calls are registered instances; an
\* instance that is not mounted applies no message and its state does not
\* change; and once a message is delivered every mounted instance with the
\* sync id of the message, the emitter apart, has applied it.
C36_SyncOnlyWhileMounted ==
  /\ [](/\ ~ Idle => \A k \in 1..Len(bus.pending) : bus.pending[k] \in Registered
        /\ Delivered =>
             \A b \in Registered \ {Message.emitter} :
               props[b].syncId = Message.cId => obs.applied[b] = 1)
  /\ [][ \A i \in Charts :
           /\ (obs'.op = "componentWillUnmount" /\ obs'.actor = i /\ obs' # obs) =>
                /\ i \in Registered
                /\ Registered' = Registered \ {i}
           /\ (i \notin Registered /\ i \notin Registered') =>
                /\ state'[i] = state[i]
                /\ obs'.applied[i] = 0
           /\ (Idle /\ ~ Idle') => bus'.pending = listeners ]_vars

\* an instance with a sync id was unmounted while a peer with the same sync
\* id stays registered on the channel
C36_Witness ==
  /\ obs.op = "componentWillUnmount"
  /\ obs.actor \notin Registered
  /\ props[obs.actor].syncId # Undefined
  /\ \E b \in Registered : props[b].syncId = props[obs.actor].syncId

\* chart i resolved an index by position, inside its window, and has a payload
PositionalInsideWindow(i) ==
  /\ "activePayload" \in DOMAIN state[i]
  /\ state[i].activePayload # Null
  /\ ~ matchesByKey(props[i].tooltipAxis)
  /\ 0 <= state[i].dataStartIndex
  /\ state[i].dataStartIndex <= state[i].dataEndIndex
  /\ state[i].dataEndIndex < Len(props[i].data)
  /\ 0 <= state[i].activeTooltipIndex
  /\ state[i].activeTooltipIndex <= state[i].dataEndIndex - state[i].dataStartIndex

\* the datum the payload holds for series k of chart i
PayloadDatum(i, k) == state[i].activePayload[1][k].payload

\* C37 as stated: with positional indexing the datum of a series at active
\* index n, inside the window [s, e], is record s + n of the dataset for a
\* series on the chart dataset (the window (0, 0) included), and record n of
\* its own data, which is how its data is displayed, for a series with its
\* own data.
C37_PositionalDatumIsDisplayedRecord ==
  \A i \in Charts :
    PositionalInsideWindow(i) =>
      LET items == props[i].graphicalItems
          n == state[i].activeTooltipIndex
          s == state[i].dataStartIndex
      IN /\ Len(state[i].activePayload[1]) = Len(items)
         /\ \A k \in DOMAIN items :
              IF itemDataOf(items[k]) = << >>
              THEN PayloadDatum(i, k) = props[i].data[s + n + 1]
              ELSE n < Len(items[k].data) => PayloadDatum(i, k) = items[k].data[n + 1]

TooltipFieldKeys ==
  {"chartX", "chartY", "isTooltipActive", "activeTooltipIndex", "activeLabel",
   "activePayload", "activeCoordinate"}
TooltipFieldsOf(st) == [k \in (DOMAIN st) \cap TooltipFieldKeys |-> st[k]]

\* this step re-renders chart i with other children and the same data, size,
\* layout, stack offset, margin and dataKey
ChildrenOnlyStep(i) ==
  /\ RenderedStep(i)
  /\ ~ GenerationPropsDiffer(props[i], props'[i])
  /\ ChildrenOf(props'[i]) # ChildrenOf(props[i])

\* the window after a change of the children: the brush element's indexes
\* where it gives them, the window of the state otherwise
WindowAfterChildren(p, st) ==
  << IF "brush" \in DOMAIN p /\ "startIndex" \in DOMAIN p.brush
     THEN p.brush.startIndex ELSE st.dataStartIndex,
     IF "brush" \in DOMAIN p /\ "endIndex" \in DOMAIN p.brush
     THEN p.brush.endIndex ELSE st.dataEndIndex >>

\* window and update id after a change of the children only
ChildrenOnlyWindowAndId(i) ==
  /\ WindowOf(state'[i]) = WindowAfterChildren(props'[i], state[i])
  /\ state'[i].updateId =
       IF ~ ("dataNil" \in DOMAIN props'[i]) /\ WindowOf(state'[i]) = WindowOf(state[i])
       THEN state[i].updateId ELSE state[i].updateId + 1

\* C38 as stated: when only the children change, the brush element's
\* startIndex/endIndex, where given, replace the window and the window is kept
\* otherwise; updateId stays when the chart has a dataset and the window did
\* not change and grows by 1 otherwise; the tooltip fields are unchanged.
C38_ChildrenOnlyChange ==
  [][ \A i \in Charts :
        ChildrenOnlyStep(i) =>
          /\ ChildrenOnlyWindowAndId(i)
          /\ TooltipFieldsOf(state'[i]) = TooltipFieldsOf(state[i]) ]_vars

\* C38 amended: the same, but the tooltip fields are unchanged unless the
\* Tooltip element itself changed; then the default tooltip is shown again as
\* at mount: the fields are unchanged or the chart is active at the default
\* index of the element.
C38_ChildrenOnlyChangeButTooltip ==
  [][ \A i \in Charts :
        ChildrenOnlyStep(i) =>
          /\ ChildrenOnlyWindowAndId(i)
          /\ IF ~ PropDiffers(props[i], props'[i], "tooltip")
             THEN TooltipFieldsOf(state'[i]) = TooltipFieldsOf(state[i])
             ELSE \/ TooltipFieldsOf(state'[i]) = TooltipFieldsOf(state[i])
                  \/ /\ "tooltip" \in DOMAIN props'[i]
                     /\ "defaultIndex" \in DOMAIN props'[i].tooltip
                     /\ state'[i].isTooltipActive
                     /\ state'[i].activeTooltipIndex = props'[i].tooltip.defaultIndex.value
                     /\ state'[i].chartX = state[i].chartX
                     /\ state'[i].chartY = state[i].chartY ]_vars

\* a hovered chart was re-rendered with a brush element that gives startIndex
\* 1 and nothing else changed: the window starts at 1, the generation is 1,
\* the tooltip is still active at the pointer position
C38_Witness ==
  \E i \in Charts :
    /\ obs.op = "render" /\ obs.actor = i
    /\ props[i] = Merge(UpdateBase, [brush |-> [height |-> 1, startIndex |-> 1]])
    /\ WindowOf(state[i]) = << 1, 2 >>
    /\ state[i].updateId = 1
    /\ state[i].isTooltipActive
    /\ state[i].chartX > 0

\* C39: an instance that holds no offset ignores tooltip sync messages: when
\* the listener called holds no offset and the message carries an
\* activeTooltipIndex and no window, the call leaves its whole state
\* unchanged, under every sync policy, and the dispatch goes on to the next
\* listener (no error ends it).
C39_NoOffsetIgnoresTooltipMessage ==
  [][ (/\ ~ Idle
       /\ IsTooltipMessage(Message.data)
       /\ "offset" \notin DOMAIN state[Receiver]) =>
        /\ state'[Receiver] = state[Receiver]
        /\ bus'.pending = Tail(bus.pending)
        /\ bus'.msg = bus.msg ]_vars

\* a hover message was delivered to a peer of the emitter that was mounted
\* with a degenerate size: it took the message and holds no tooltip field
\* beyond those of the mount
C39_Witness ==
  /\ Delivered
  /\ IsTooltipMessage(Message.data)
  /\ \E b \in Charts \ {Message.emitter} :
       /\ isMounted(b)
       /\ ~ validateWidthHeight(props[b])
       /\ "offset" \notin DOMAIN state[b]
       /\ obs.applied[b] = 1
       /\ "activeLabel" \notin DOMAIN state[b]
       /\ state[b].activeTooltipIndex = 0 - 1
       /\ state[Message.emitter].activeTooltipIndex >= 0

====
